---- MODULE Spec2Model ----
(***************************************************************************)
(* Model of the dashboard's data layer: web-dashboard/lib/data.ts (run     *)
(* aggregation, trade/opportunity correlation, equity curve and drawdown,  *)
(* runtime-status gateway) and of the two-handle getDb of lib/db.          *)
(*                                                                         *)
(* SQL NULL / JS null is the empty tuple <<>>, a present value v is <<v>>. *)
(* SQLite booleans are the integers 0 and 1, as stored by the code.        *)
(***************************************************************************)
EXTENDS Integers, Sequences, FiniteSets, TLC

VARIABLES
    run_metadata,        \* table run_metadata: set of rows keyed by run_id
    paper_trades,        \* table paper_trades: rows in insertion (rowid) order
    opportunities,       \* table opportunities: rows in insertion order
    portfolio_snapshots, \* table portfolio_snapshots: rows in insertion order
    runtime_status,      \* table runtime_status: set of rows keyed by id
    dbFileExists,        \* fs.existsSync(dbPath)
    readDb,              \* module variable readDb of lib/db
    writeDb,             \* module variable writeDb of lib/db
    opens,               \* Database objects constructed so far, per mode
    inflight,            \* setBotEnabled calls in progress in other server processes
    inputs,              \* arguments of the function under study
    client,              \* the SystemStatus component and its requests under way
    ret                  \* the last completed call and what it returned

vars == <<run_metadata, paper_trades, opportunities, portfolio_snapshots,
          runtime_status, dbFileExists, readDb, writeDb, opens, inflight,
          inputs, client, ret>>

storeVars == <<run_metadata, paper_trades, opportunities, portfolio_snapshots,
               runtime_status>>

dbVars == <<dbFileExists, readDb, writeDb, opens>>

----------------------------------------------------------------------------
(* Bounds *)

MaxRows == 2         \* rows the engine appends to the three child tables
MaxCurveLen == 4     \* length of the trade lists given to the equity builder
MaxAttachTrades == 1 \* length of the trade lists given to the correlator
MaxAttachOpps == 3   \* length of the opportunity lists given to the correlator
MaxOpens == 2        \* the count of Database objects constructed stops here
MaxDbCalls == 4      \* length of the sequences of getDb calls
MaxOpsRows == 1      \* child rows in the store of SpecOperations
MaxSummaryTrades == 3 \* trades in the store of SpecSummary
MaxPolls == 2         \* status polls of the component under way at once

RunIds == {"R1", "R2"}
TriangleIds == {7, 8}
EngineTriangleIds == {7}
Timestamps == {1, 2}
EndTimestamps == {2}
PnlValues == {-2, 1}
AttachTimestamps == {10, 20, 25, 30}
CurvePnlValues == {-5, -2, 1, 2, 4}
HeartbeatValues == {5}

----------------------------------------------------------------------------
(* Nullable values *)

Null == <<>>
Val(v) == <<v>>
IsNull(x) == x = <<>>
Get(x) == x[1]
Nullable(S) == {Null} \cup {Val(v) : v \in S}

\* JS truthiness of a nullable number: null and 0 are falsy
Truthy(x) == ~IsNull(x) /\ Get(x) # 0

\* JS `x ?? d` on a nullable number
Coalesce(x, d) == IF IsNull(x) THEN d ELSE Get(x)

Max(a, b) == IF a >= b THEN a ELSE b

Abs(a) == IF a < 0 THEN -a ELSE a

RECURSIVE Gcd(_, _)
Gcd(a, b) == IF b = 0 THEN a ELSE Gcd(b, a % b)

\* A quotient n / d (d > 0) of the floating point division, kept exact as a
\* reduced fraction <<numerator, denominator>>
Ratio(n, d) ==
    LET g == Gcd(Abs(n), d)
    IN  <<n \div g, d \div g>>

Zero == <<0, 1>>

SeqsUpTo(S, n) == UNION {[1..k -> S] : k \in 0..n}

----------------------------------------------------------------------------
(* Sorting: SQLite's ORDER BY and Array.prototype.sort, both stable *)

\* The comparator: a negative result puts a before b.  dir = 1 is
\* a.timestamp - b.timestamp (ascending), dir = -1 is b.timestamp - a.timestamp
Compare(a, b, dir) == dir * (a.timestamp - b.timestamp)

RECURSIVE Insert(_, _, _)
Insert(x, s, dir) ==
    IF s = <<>> THEN <<x>>
    ELSE IF Compare(x, Head(s), dir) < 0 THEN <<x>> \o s
    ELSE <<Head(s)>> \o Insert(x, Tail(s), dir)

RECURSIVE StableSort(_, _)
StableSort(s, dir) ==
    IF s = <<>> THEN <<>>
    ELSE Insert(s[Len(s)], StableSort(SubSeq(s, 1, Len(s) - 1), dir), dir)

\* ... ORDER BY timestamp ASC
OrderByTimestampAsc(rows) == StableSort(rows, 1)

\* ... WHERE run_id = ?
WhereRunId(rows, runId) == SelectSeq(rows, LAMBDA r : r.run_id = runId)

----------------------------------------------------------------------------
(* computeMaxDrawdown *)

RECURSIVE DrawdownLoop(_, _, _, _)
DrawdownLoop(equityCurve, i, peak, maxDrawdown) ==
    IF i > Len(equityCurve) THEN maxDrawdown
    ELSE LET newPeak == Max(peak, equityCurve[i].equity)
             drawdown == newPeak - equityCurve[i].equity
         IN  DrawdownLoop(equityCurve, i + 1, newPeak, Max(maxDrawdown, drawdown))

\* Variant: the peak starts at the first equity point instead of 0
computeMaxDrawdown_peakFromFirst(equityCurve) ==
    IF Len(equityCurve) = 0 THEN 0
    ELSE DrawdownLoop(equityCurve, 1, equityCurve[1].equity, 0)

RECURSIVE LastDrawdownLoop(_, _, _, _)
LastDrawdownLoop(equityCurve, i, peak, maxDrawdown) ==
    IF i > Len(equityCurve) THEN maxDrawdown
    ELSE LET newPeak == Max(peak, equityCurve[i].equity)
         IN  LastDrawdownLoop(equityCurve, i + 1, newPeak, newPeak - equityCurve[i].equity)

\* Variant: the drawdown of the last point is returned, not the maximum
computeMaxDrawdown_last(equityCurve) == LastDrawdownLoop(equityCurve, 1, 0, 0)

computeMaxDrawdown(equityCurve) == DrawdownLoop(equityCurve, 1, 0, 0)

----------------------------------------------------------------------------
(* attachOpportunitiesToTrades *)

WithOpportunity(trade, opp) ==
    [id |-> trade.id, run_id |-> trade.run_id, timestamp |-> trade.timestamp,
     triangle_id |-> trade.triangle_id, realized_pnl |-> trade.realized_pnl,
     opportunity |-> opp]

\* Variant: the eligible opportunities are sorted ascending
Related_ascending(trade, opps) ==
    LET eligible == SelectSeq(opps, LAMBDA opp :
                        opp.triangle_id = trade.triangle_id
                        /\ opp.timestamp <= trade.timestamp)
        sorted == StableSort(eligible, 1)
    IN  IF sorted = <<>> THEN Null ELSE Val(sorted[1])

\* Variant: only opportunities strictly before the trade are eligible
Related_strictlyBefore(trade, opps) ==
    LET eligible == SelectSeq(opps, LAMBDA opp :
                        opp.triangle_id = trade.triangle_id
                        /\ opp.timestamp < trade.timestamp)
        sorted == StableSort(eligible, -1)
    IN  IF sorted = <<>> THEN Null ELSE Val(sorted[1])

\* Variant: sorted ascending and the last element taken, which among tied
\* opportunities is the last of the input list
Related_lastTied(trade, opps) ==
    LET eligible == SelectSeq(opps, LAMBDA opp :
                        opp.triangle_id = trade.triangle_id
                        /\ opp.timestamp <= trade.timestamp)
        sorted == StableSort(eligible, 1)
    IN  IF sorted = <<>> THEN Null ELSE Val(sorted[Len(sorted)])

\* opportunities.filter(...).sort((a, b) => b.timestamp - a.timestamp)[0]
Related(trade, opps) ==
    LET eligible == SelectSeq(opps, LAMBDA opp :
                        opp.triangle_id = trade.triangle_id
                        /\ opp.timestamp <= trade.timestamp)
        sorted == StableSort(eligible, -1)
    IN  IF sorted = <<>> THEN Null ELSE Val(sorted[1])

attachOpportunitiesToTrades(trades, opps) ==
    IF Len(opps) = 0 THEN trades
    ELSE [i \in 1..Len(trades) |-> WithOpportunity(trades[i], Related(trades[i], opps))]

----------------------------------------------------------------------------
(* The equity curve of getRunDetails *)

RECURSIVE EquityLoop(_, _, _)
EquityLoop(trades, i, cumulative) ==
    IF i > Len(trades) THEN <<>>
    ELSE LET c == cumulative + Coalesce(trades[i].realized_pnl, 0)
         IN  <<[timestamp |-> trades[i].timestamp, equity |-> c]>>
             \o EquityLoop(trades, i + 1, c)

\* Variant: each point carries the trade's own pnl, nothing is accumulated
buildEquityCurve_notCumulative(tradesWithOpp) ==
    [i \in 1..Len(tradesWithOpp) |->
        [timestamp |-> tradesWithOpp[i].timestamp,
         equity |-> Coalesce(tradesWithOpp[i].realized_pnl, 0)]]

buildEquityCurve(tradesWithOpp) == EquityLoop(tradesWithOpp, 1, 0)

----------------------------------------------------------------------------
(* lib/db: openDatabase and getDb, one lazily opened handle per mode *)

StoreNotFound == "SQLite database not found"
StatusRowMissing == "runtime_status row not found"

\* Variant: no existence test and no fileMustExist, a missing store is
\* created empty
openDatabase_createIfMissing(readonly) ==
    [ok |-> TRUE, handle |-> IF readonly THEN "readonly" ELSE "readwrite"]

\* openDatabase(readonly): throws when the file is missing
openDatabase(readonly) ==
    IF ~dbFileExists THEN [ok |-> FALSE, error |-> StoreNotFound]
    ELSE [ok |-> TRUE, handle |-> IF readonly THEN "readonly" ELSE "readwrite"]

\* One more Database object constructed in a mode (the count stops at MaxOpens)
NoOpens == [readonly |-> 0, readwrite |-> 0]

Opened(counts, mode) ==
    [counts EXCEPT ![mode] = IF @ < MaxOpens THEN @ + 1 ELSE @]

\* Variant: one connection with a mode, asking for the mode that is not open
\* drops the open handle and opens the store again
getDbFrom_singleHandle(writable, db) ==
    LET cached == IF writable THEN db.writeDb ELSE db.readDb
        opened == openDatabase(~writable)
    IN  IF cached # "null"
        THEN [ok |-> TRUE, readDb |-> db.readDb, writeDb |-> db.writeDb,
              opens |-> db.opens]
        ELSE IF ~opened.ok
        THEN [ok |-> FALSE, error |-> opened.error,
              readDb |-> db.readDb, writeDb |-> db.writeDb, opens |-> db.opens]
        ELSE IF writable
        THEN [ok |-> TRUE, readDb |-> "null", writeDb |-> opened.handle,
              opens |-> Opened(db.opens, "readwrite")]
        ELSE [ok |-> TRUE, readDb |-> opened.handle, writeDb |-> "null",
              opens |-> Opened(db.opens, "readonly")]

\* Variant: the result of the failed open is kept in the module variable,
\* which is then no longer unset
getDbFrom_cacheFailure(writable, db) ==
    LET cached == IF writable THEN db.writeDb ELSE db.readDb
        opened == openDatabase(~writable)
    IN  IF cached # "null"
        THEN [ok |-> TRUE, readDb |-> db.readDb, writeDb |-> db.writeDb,
              opens |-> db.opens]
        ELSE IF ~opened.ok
        THEN [ok |-> FALSE, error |-> opened.error,
              readDb |-> IF writable THEN db.readDb ELSE "failed",
              writeDb |-> IF writable THEN "failed" ELSE db.writeDb,
              opens |-> db.opens]
        ELSE IF writable
        THEN [ok |-> TRUE, readDb |-> db.readDb, writeDb |-> opened.handle,
              opens |-> Opened(db.opens, "readwrite")]
        ELSE [ok |-> TRUE, readDb |-> opened.handle, writeDb |-> db.writeDb,
              opens |-> Opened(db.opens, "readonly")]

\* getDb({writable}) called with the module variables db.readDb and
\* db.writeDb: the outcome, the two module variables and the number of
\* Database objects constructed afterwards
getDbFrom(writable, db) ==
    IF writable
    THEN IF db.writeDb = "null"
         THEN LET opened == openDatabase(FALSE)
              IN  IF opened.ok
                  THEN [ok |-> TRUE, readDb |-> db.readDb, writeDb |-> opened.handle,
                        opens |-> Opened(db.opens, "readwrite")]
                  ELSE [ok |-> FALSE, error |-> opened.error,
                        readDb |-> db.readDb, writeDb |-> db.writeDb,
                        opens |-> db.opens]
         ELSE [ok |-> TRUE, readDb |-> db.readDb, writeDb |-> db.writeDb,
               opens |-> db.opens]
    ELSE IF db.readDb = "null"
         THEN LET opened == openDatabase(TRUE)
              IN  IF opened.ok
                  THEN [ok |-> TRUE, readDb |-> opened.handle, writeDb |-> db.writeDb,
                        opens |-> Opened(db.opens, "readonly")]
                  ELSE [ok |-> FALSE, error |-> opened.error,
                        readDb |-> db.readDb, writeDb |-> db.writeDb,
                        opens |-> db.opens]
         ELSE [ok |-> TRUE, readDb |-> db.readDb, writeDb |-> db.writeDb,
               opens |-> db.opens]

\* getDb({writable}) in the current state of the process
getDb(writable) ==
    getDbFrom(writable, [readDb |-> readDb, writeDb |-> writeDb, opens |-> opens])

----------------------------------------------------------------------------
(* The aggregation query of getRuns and getRunMetadata *)

\* SUM(x) over a list of nullable numbers: NULL values are skipped; the
\* result is NULL when every value is NULL (or the list is empty)
NonNull(xs) == SelectSeq(xs, LAMBDA x : ~IsNull(x))

RECURSIVE Total(_)
Total(xs) == IF xs = <<>> THEN 0 ELSE Get(Head(xs)) + Total(Tail(xs))

SqlSum(xs) == IF NonNull(xs) = <<>> THEN Null ELSE Val(Total(NonNull(xs)))

\* AVG(x): the mean of the non-NULL values, NULL when there is none
SqlAvg(xs) ==
    IF NonNull(xs) = <<>> THEN Null
    ELSE Ratio(Total(NonNull(xs)), Len(NonNull(xs)))

\* run_metadata rm LEFT JOIN paper_trades pt ON rm.run_id = pt.run_id,
\* GROUP BY rm.run_id: the group of rm, one all-NULL pt row when nothing joins
NullTrade == [id |-> Null, realized_pnl |-> Null]

\* Variant: the join condition is dropped, every trade joins every run
JoinedTrades_noCondition(rm, trades) ==
    IF trades = <<>> THEN <<NullTrade>>
    ELSE [i \in 1..Len(trades) |->
             [id |-> Val(trades[i].id), realized_pnl |-> trades[i].realized_pnl]]

JoinedTrades(rm, trades) ==
    LET matching == WhereRunId(trades, rm.run_id)
    IN  IF matching = <<>> THEN <<NullTrade>>
        ELSE [i \in 1..Len(matching) |->
                 [id |-> Val(matching[i].id), realized_pnl |-> matching[i].realized_pnl]]

\* Variant: COUNT(pt.realized_pnl), trades without a pnl are not counted
AggregateRow_countPnl(rm, trades) ==
    LET group == JoinedTrades(rm, trades)
        ids == [i \in 1..Len(group) |-> group[i].id]
        pnls == [i \in 1..Len(group) |-> group[i].realized_pnl]
        count == Len(NonNull(pnls))
        wins == [i \in 1..Len(group) |->
                    IF ~IsNull(pnls[i]) /\ Get(pnls[i]) > 0 THEN Val(1) ELSE Val(0)]
    IN  [run_id |-> rm.run_id,
         start_timestamp |-> rm.start_timestamp,
         end_timestamp |-> rm.end_timestamp,
         trade_count |-> count,
         total_pnl |-> Coalesce(SqlSum(pnls), 0),
         avg_pnl |-> IF count > 0 THEN SqlAvg(pnls) ELSE Zero,
         win_count |-> Get(SqlSum(wins))]

AggregateRow(rm, trades) ==
    LET group == JoinedTrades(rm, trades)
        ids == [i \in 1..Len(group) |-> group[i].id]
        pnls == [i \in 1..Len(group) |-> group[i].realized_pnl]
        count == Len(NonNull(ids))
        wins == [i \in 1..Len(group) |->
                    IF ~IsNull(pnls[i]) /\ Get(pnls[i]) > 0 THEN Val(1) ELSE Val(0)]
    IN  [run_id |-> rm.run_id,
         start_timestamp |-> rm.start_timestamp,
         end_timestamp |-> rm.end_timestamp,
         trade_count |-> count,
         total_pnl |-> Coalesce(SqlSum(pnls), 0),
         avg_pnl |-> IF count > 0 THEN SqlAvg(pnls) ELSE Zero,
         win_count |-> Get(SqlSum(wins))]

\* Variant: the duration goes through `|| null`, a duration of 0 is lost
ToRunSummary_durationOrNull(row) ==
    [runId |-> row.run_id,
     startTimestamp |-> row.start_timestamp,
     endTimestamp |-> row.end_timestamp,
     tradeCount |-> row.trade_count,
     totalPnl |-> row.total_pnl,
     averagePnl |-> row.avg_pnl,
     winRate |-> IF row.trade_count > 0
                 THEN Ratio(row.win_count, row.trade_count) ELSE Zero,
     durationSeconds |-> IF /\ Truthy(row.end_timestamp)
                            /\ Get(row.end_timestamp) - row.start_timestamp # 0
                         THEN Val(Get(row.end_timestamp) - row.start_timestamp)
                         ELSE Null,
     status |-> IF Truthy(row.end_timestamp) THEN "completed" ELSE "active"]

\* The mapping of an aggregated row to a RunSummary (the same code in
\* getRuns and in getRunMetadata).  The free-text notes column is copied
\* through unchanged and is left out.
ToRunSummary(row) ==
    [runId |-> row.run_id,
     startTimestamp |-> row.start_timestamp,
     endTimestamp |-> row.end_timestamp,
     tradeCount |-> row.trade_count,
     totalPnl |-> row.total_pnl,
     averagePnl |-> row.avg_pnl,
     winRate |-> IF row.trade_count > 0
                 THEN Ratio(row.win_count, row.trade_count) ELSE Zero,
     durationSeconds |-> IF Truthy(row.end_timestamp)
                         THEN Val(Get(row.end_timestamp) - row.start_timestamp)
                         ELSE Null,
     status |-> IF Truthy(row.end_timestamp) THEN "completed" ELSE "active"]

\* GROUP BY rm.run_id produces the groups in run_id order
RECURSIVE GroupByRunId(_, _)
GroupByRunId(rms, ids) ==
    IF ids = <<>> THEN <<>>
    ELSE (IF \E rm \in rms : rm.run_id = Head(ids)
          THEN <<CHOOSE rm \in rms : rm.run_id = Head(ids)>>
          ELSE <<>>) \o GroupByRunId(rms, Tail(ids))

RunIdOrder == <<"R1", "R2">>

\* ... ORDER BY rm.start_timestamp DESC
RECURSIVE InsertByStartDesc(_, _)
InsertByStartDesc(x, s) ==
    IF s = <<>> THEN <<x>>
    ELSE IF x.start_timestamp > Head(s).start_timestamp THEN <<x>> \o s
    ELSE <<Head(s)>> \o InsertByStartDesc(x, Tail(s))

RECURSIVE OrderByStartDesc(_)
OrderByStartDesc(s) ==
    IF s = <<>> THEN <<>>
    ELSE InsertByStartDesc(s[Len(s)], OrderByStartDesc(SubSeq(s, 1, Len(s) - 1)))

\* Variant: an inner join, runs without trades produce no group
getRuns_innerJoin ==
    LET withTrades == {rm \in run_metadata : WhereRunId(paper_trades, rm.run_id) # <<>>}
        groups == OrderByStartDesc(GroupByRunId(withTrades, RunIdOrder))
    IN  [i \in 1..Len(groups) |-> ToRunSummary(AggregateRow(groups[i], paper_trades))]

\* Variant: no ORDER BY, the groups stay in run_id order
getRuns_unordered ==
    LET groups == GroupByRunId(run_metadata, RunIdOrder)
    IN  [i \in 1..Len(groups) |-> ToRunSummary(AggregateRow(groups[i], paper_trades))]

\* getRuns, given an open handle
getRuns ==
    LET groups == OrderByStartDesc(GroupByRunId(run_metadata, RunIdOrder))
    IN  [i \in 1..Len(groups) |-> ToRunSummary(AggregateRow(groups[i], paper_trades))]

\* Variant: the aggregate without GROUP BY, a run that is not there still
\* yields one (zeroed) row
getRunMetadata_zeroed(runId) ==
    IF \E rm \in run_metadata : rm.run_id = runId
    THEN Val(ToRunSummary(AggregateRow(
                 CHOOSE rm \in run_metadata : rm.run_id = runId, paper_trades)))
    ELSE Val(ToRunSummary(AggregateRow(
                 [run_id |-> runId, start_timestamp |-> 0, end_timestamp |-> Null],
                 paper_trades)))

\* getRunMetadata(runId), given an open handle
getRunMetadata(runId) ==
    IF \E rm \in run_metadata : rm.run_id = runId
    THEN Val(ToRunSummary(AggregateRow(
                 CHOOSE rm \in run_metadata : rm.run_id = runId, paper_trades)))
    ELSE Null

getOpportunities(runId) == OrderByTimestampAsc(WhereRunId(opportunities, runId))

getPortfolioSnapshots(runId) ==
    OrderByTimestampAsc(WhereRunId(portfolio_snapshots, runId))

\* Variant: ORDER BY timestamp DESC
getTrades_descending(runId) == StableSort(WhereRunId(paper_trades, runId), -1)

getTrades(runId) == OrderByTimestampAsc(WhereRunId(paper_trades, runId))

\* getRunDetails(runId), given an open handle
getRunDetails(runId) ==
    LET metadata == getRunMetadata(runId)
        opps == getOpportunities(runId)
        snapshots == getPortfolioSnapshots(runId)
        trades == getTrades(runId)
        tradesWithOpp == attachOpportunitiesToTrades(trades, opps)
        equityCurve == buildEquityCurve(tradesWithOpp)
    IN  [metadata |-> metadata,
         trades |-> tradesWithOpp,
         opportunities |-> opps,
         snapshots |-> snapshots,
         equityCurve |-> equityCurve,
         maxDrawdown |-> computeMaxDrawdown(equityCurve)]

----------------------------------------------------------------------------
(* States shared by the specifications *)

NoCall == [op |-> "none"]
NoInputs == [op |-> "none"]

\* Server processes other than the one whose handles are readDb and writeDb
Callers == {1, 2}
Idle == [pc |-> "idle"]
NoInflight == [c \in Callers |-> Idle]

\* The SystemStatus component as constructed: the initial values of its four
\* state variables, no request under way
NoClient ==
    [status |-> Null, loading |-> TRUE, error |-> Null, togglePending |-> FALSE,
     polls |-> <<>>, toggle |-> Null]

EmptyStore ==
    /\ run_metadata = {}
    /\ paper_trades = <<>>
    /\ opportunities = <<>>
    /\ portfolio_snapshots = <<>>
    /\ runtime_status = {}

ClosedDb ==
    /\ readDb = "null"
    /\ writeDb = "null"
    /\ opens = NoOpens

----------------------------------------------------------------------------
(* The external trading engine: it creates the store and appends rows *)

External == [op |-> "external"]

ChildRows == Len(paper_trades) + Len(opportunities) + Len(portfolio_snapshots)

EngineCreateStore ==
    /\ ~dbFileExists
    /\ dbFileExists' = TRUE
    /\ ret' = External
    /\ UNCHANGED <<storeVars, readDb, writeDb, opens, inputs, inflight, client>>

EngineStartRun(runId, ts) ==
    /\ dbFileExists
    /\ \A rm \in run_metadata : rm.run_id # runId
    /\ run_metadata' = run_metadata \cup
           {[run_id |-> runId, start_timestamp |-> ts, end_timestamp |-> Null]}
    /\ ret' = External
    /\ UNCHANGED <<paper_trades, opportunities, portfolio_snapshots,
                   runtime_status, dbVars, inputs, inflight, client>>

EngineEndRun(runId, ts) ==
    /\ \E rm \in run_metadata :
          /\ rm.run_id = runId
          /\ IsNull(rm.end_timestamp)
          /\ rm.start_timestamp <= ts
          /\ run_metadata' = (run_metadata \ {rm}) \cup
                 {[rm EXCEPT !.end_timestamp = Val(ts)]}
    /\ ret' = External
    /\ UNCHANGED <<paper_trades, opportunities, portfolio_snapshots,
                   runtime_status, dbVars, inputs, inflight, client>>

EngineAppendTrade(runId, ts, tri, pnl) ==
    /\ ChildRows < MaxRows
    /\ \E rm \in run_metadata : rm.run_id = runId
    /\ paper_trades' = Append(paper_trades,
           [id |-> Len(paper_trades) + 1, run_id |-> runId, timestamp |-> ts,
            triangle_id |-> tri, realized_pnl |-> pnl])
    /\ ret' = External
    /\ UNCHANGED <<run_metadata, opportunities, portfolio_snapshots,
                   runtime_status, dbVars, inputs, inflight, client>>

EngineAppendOpportunity(runId, ts, tri) ==
    /\ ChildRows < MaxRows
    /\ \E rm \in run_metadata : rm.run_id = runId
    /\ opportunities' = Append(opportunities,
           [id |-> Len(opportunities) + 1, run_id |-> runId, timestamp |-> ts,
            triangle_id |-> tri])
    /\ ret' = External
    /\ UNCHANGED <<run_metadata, paper_trades, portfolio_snapshots,
                   runtime_status, dbVars, inputs, inflight, client>>

EngineAppendSnapshot(runId, ts) ==
    /\ ChildRows < MaxRows
    /\ \E rm \in run_metadata : rm.run_id = runId
    /\ portfolio_snapshots' = Append(portfolio_snapshots,
           [id |-> Len(portfolio_snapshots) + 1, run_id |-> runId, timestamp |-> ts])
    /\ ret' = External
    /\ UNCHANGED <<run_metadata, paper_trades, opportunities,
                   runtime_status, dbVars, inputs, inflight, client>>

----------------------------------------------------------------------------
(* Spec: the analytics operations over a store the engine appends to *)

\* Variant: the first list read is kept (in inputs) and answered ever after
GetRuns_cached ==
    /\ LET db == getDb(FALSE)
           value == IF inputs.op = "getRuns" THEN inputs.value ELSE getRuns
       IN  /\ readDb' = db.readDb
           /\ writeDb' = db.writeDb
           /\ opens' = db.opens
           /\ ret' = IF db.ok
                     THEN [op |-> "getRuns", ok |-> TRUE, value |-> value]
                     ELSE [op |-> "getRuns", ok |-> FALSE, error |-> db.error]
           /\ inputs' = IF db.ok THEN [op |-> "getRuns", value |-> value] ELSE inputs
    /\ UNCHANGED <<storeVars, dbFileExists, inflight, client>>

GetRuns ==
    /\ LET db == getDb(FALSE)
       IN  /\ readDb' = db.readDb
           /\ writeDb' = db.writeDb
           /\ opens' = db.opens
           /\ ret' = IF db.ok
                     THEN [op |-> "getRuns", ok |-> TRUE, value |-> getRuns]
                     ELSE [op |-> "getRuns", ok |-> FALSE, error |-> db.error]
    /\ UNCHANGED <<storeVars, dbFileExists, inputs, inflight, client>>

\* Variant: the details are read through the writable handle
GetRunDetails_writable(runId) ==
    /\ LET db == getDb(TRUE)
       IN  /\ readDb' = db.readDb
           /\ writeDb' = db.writeDb
           /\ opens' = db.opens
           /\ ret' = IF db.ok
                     THEN [op |-> "getRunDetails", runId |-> runId, ok |-> TRUE,
                           value |-> getRunDetails(runId)]
                     ELSE [op |-> "getRunDetails", runId |-> runId, ok |-> FALSE,
                           error |-> db.error]
    /\ UNCHANGED <<storeVars, dbFileExists, inputs, inflight, client>>

GetRunDetails(runId) ==
    /\ LET db == getDb(FALSE)
       IN  /\ readDb' = db.readDb
           /\ writeDb' = db.writeDb
           /\ opens' = db.opens
           /\ ret' = IF db.ok
                     THEN [op |-> "getRunDetails", runId |-> runId, ok |-> TRUE,
                           value |-> getRunDetails(runId)]
                     ELSE [op |-> "getRunDetails", runId |-> runId, ok |-> FALSE,
                           error |-> db.error]
    /\ UNCHANGED <<storeVars, dbFileExists, inputs, inflight, client>>

Init ==
    /\ EmptyStore
    /\ ClosedDb
    /\ dbFileExists \in BOOLEAN
    /\ inflight = NoInflight
    /\ client = NoClient
    /\ inputs = NoInputs
    /\ ret = NoCall

Next ==
    \/ EngineCreateStore
    \/ \E runId \in RunIds, ts \in Timestamps : EngineStartRun(runId, ts)
    \/ \E runId \in RunIds, ts \in EndTimestamps : EngineEndRun(runId, ts)
    \/ \E runId \in RunIds, ts \in Timestamps, tri \in EngineTriangleIds,
          pnl \in Nullable(PnlValues) : EngineAppendTrade(runId, ts, tri, pnl)
    \/ \E runId \in RunIds, ts \in Timestamps, tri \in EngineTriangleIds :
          EngineAppendOpportunity(runId, ts, tri)
    \/ \E runId \in RunIds, ts \in Timestamps : EngineAppendSnapshot(runId, ts)
    \/ GetRuns
    \/ \E runId \in RunIds : GetRunDetails(runId)

Spec == Init /\ [][Next]_vars

----------------------------------------------------------------------------
(* The runtime-status gateway: getRuntimeStatus and setBotEnabled *)

DefaultStatusRow ==
    [id |-> 1, bot_enabled |-> 1, bot_running |-> 0, ws_connected |-> 0,
     last_heartbeat |-> Null]

\* Variant: INSERT OR REPLACE, an existing row is overwritten by the defaults
InsertOrIgnoreStatus_replace(table) ==
    {r \in table : r.id # 1} \cup {DefaultStatusRow}

\* Variant: no insert at all
InsertOrIgnoreStatus_skip(table) == table

\* Variant: a plain INSERT under the next free id, whether or not row 1 exists
InsertOrIgnoreStatus_newRow(table) ==
    table \cup {[DefaultStatusRow EXCEPT !.id = Cardinality(table) + 1]}

\* INSERT OR IGNORE INTO runtime_status (...) VALUES (1, 1, 0, 0, NULL)
InsertOrIgnoreStatus(table) ==
    IF \E r \in table : r.id = 1 THEN table ELSE table \cup {DefaultStatusRow}

\* Variant: the flag is flipped instead of set
UpdateBotEnabled_flip(table, enabled) ==
    {IF r.id = 1 THEN [r EXCEPT !.bot_enabled = 1 - r.bot_enabled] ELSE r : r \in table}

\* Variant: the parameter is bound the wrong way round, enabled ? 0 : 1
UpdateBotEnabled_inverted(table, enabled) ==
    {IF r.id = 1 THEN [r EXCEPT !.bot_enabled = IF enabled THEN 0 ELSE 1] ELSE r :
        r \in table}

\* UPDATE runtime_status SET bot_enabled = @enabled WHERE id = 1
UpdateBotEnabled(table, enabled) ==
    {IF r.id = 1 THEN [r EXCEPT !.bot_enabled = IF enabled THEN 1 ELSE 0] ELSE r :
        r \in table}

\* new Date(seconds * 1000).toISOString(): the instant in milliseconds
ToISOString(millis) == [isoMillis |-> millis]

\* Boolean(x) of a stored integer
Boolean(x) == x # 0

ToRuntimeStatus(row) ==
    [botEnabled |-> Boolean(row.bot_enabled),
     botRunning |-> Boolean(row.bot_running),
     wsConnected |-> Boolean(row.ws_connected),
     dbConnected |-> TRUE,
     lastHeartbeat |-> IF Truthy(row.last_heartbeat)
                       THEN Val(ToISOString(Get(row.last_heartbeat) * 1000))
                       ELSE Null]

\* Variant: a read that finds no row creates the default row and returns it
getRuntimeStatus_autoCreate(table) ==
    LET healed == InsertOrIgnoreStatus(table)
    IN  [ok |-> TRUE, table |-> healed,
         value |-> ToRuntimeStatus(CHOOSE r \in healed : r.id = 1)]

\* getRuntimeStatus over the rows of runtime_status, given an open handle:
\* the outcome and the table afterwards
getRuntimeStatus(table) ==
    IF \E r \in table : r.id = 1
    THEN [ok |-> TRUE, table |-> table,
          value |-> ToRuntimeStatus(CHOOSE r \in table : r.id = 1)]
    ELSE [ok |-> FALSE, table |-> table, error |-> StatusRowMissing]

\* A call record without the record of the call before it
Forget(call) == [f \in DOMAIN call \ {"prior"} |-> call[f]]

GetRuntimeStatus ==
    /\ LET db == getDb(FALSE)
           read == getRuntimeStatus(runtime_status)
       IN  /\ readDb' = db.readDb
           /\ writeDb' = db.writeDb
           /\ opens' = db.opens
           /\ IF ~db.ok
              THEN /\ runtime_status' = runtime_status
                   /\ ret' = [op |-> "getRuntimeStatus", ok |-> FALSE,
                              error |-> db.error, before |-> runtime_status]
              ELSE /\ runtime_status' = read.table
                   /\ ret' = IF read.ok
                             THEN [op |-> "getRuntimeStatus", ok |-> TRUE,
                                   value |-> read.value, before |-> runtime_status]
                             ELSE [op |-> "getRuntimeStatus", ok |-> FALSE,
                                   error |-> read.error, before |-> runtime_status]
    /\ UNCHANGED <<run_metadata, paper_trades, opportunities, portfolio_snapshots,
                   dbFileExists, inputs, inflight, client>>

\* setBotEnabled(enabled): the module variables of lib/db and the table
\* afterwards, and what the call returned or threw
setBotEnabled(enabled) ==
    LET wdb == getDb(TRUE)
        inserted == InsertOrIgnoreStatus(runtime_status)
        updated == UpdateBotEnabled(inserted, enabled)
        \* getRuntimeStatus() opens or reuses the read handle
        rdb == getDbFrom(FALSE, wdb)
        read == getRuntimeStatus(updated)
    IN  IF ~wdb.ok
        THEN [readDb |-> readDb, writeDb |-> writeDb, opens |-> opens,
              table |-> runtime_status,
              outcome |-> [ok |-> FALSE, error |-> wdb.error]]
        ELSE IF ~rdb.ok
        THEN [readDb |-> rdb.readDb, writeDb |-> rdb.writeDb, opens |-> rdb.opens,
              table |-> updated,
              outcome |-> [ok |-> FALSE, error |-> rdb.error]]
        ELSE [readDb |-> rdb.readDb, writeDb |-> rdb.writeDb, opens |-> rdb.opens,
              table |-> read.table,
              outcome |-> IF read.ok THEN [ok |-> TRUE, value |-> read.value]
                          ELSE [ok |-> FALSE, error |-> read.error]]

SetBotEnabled(enabled) ==
    /\ LET done == setBotEnabled(enabled)
           call == [op |-> "setBotEnabled", enabled |-> enabled,
                    before |-> runtime_status, prior |-> Forget(ret)]
       IN  /\ readDb' = done.readDb
           /\ writeDb' = done.writeDb
           /\ opens' = done.opens
           /\ runtime_status' = done.table
           /\ ret' = call @@ done.outcome
    /\ UNCHANGED <<run_metadata, paper_trades, opportunities, portfolio_snapshots,
                   dbFileExists, inputs, inflight, client>>

\* Variant: the engine deletes the status row when it reports that it stopped
EngineHeartbeat_clearOnStop(running, ws, hb) ==
    /\ \E r \in runtime_status :
          /\ r.id = 1
          /\ runtime_status' =
                 IF running = 0 THEN runtime_status \ {r}
                 ELSE (runtime_status \ {r}) \cup
                      {[r EXCEPT !.bot_running = running, !.ws_connected = ws,
                                 !.last_heartbeat = hb]}
    /\ runtime_status' # runtime_status
    /\ ret' = External
    /\ UNCHANGED <<run_metadata, paper_trades, opportunities, portfolio_snapshots,
                   dbVars, inputs, inflight, client>>

\* The engine reports its state in the status row
EngineHeartbeat(running, ws, hb) ==
    /\ \E r \in runtime_status :
          /\ r.id = 1
          /\ runtime_status' = (runtime_status \ {r}) \cup
                 {[r EXCEPT !.bot_running = running, !.ws_connected = ws,
                            !.last_heartbeat = hb]}
    /\ runtime_status' # runtime_status
    /\ ret' = External
    /\ UNCHANGED <<run_metadata, paper_trades, opportunities, portfolio_snapshots,
                   dbVars, inputs, inflight, client>>

----------------------------------------------------------------------------
(* SpecStatus: the gateway over every status table the store can hold *)

StatusRows ==
    [id : {1}, bot_enabled : {0, 1}, bot_running : {0, 1}, ws_connected : {0, 1},
     last_heartbeat : Nullable(HeartbeatValues)]

InitStatus ==
    /\ run_metadata = {}
    /\ paper_trades = <<>>
    /\ opportunities = <<>>
    /\ portfolio_snapshots = <<>>
    /\ ClosedDb
    /\ dbFileExists \in BOOLEAN
    /\ runtime_status \in {{}} \cup (IF dbFileExists THEN {{r} : r \in StatusRows} ELSE {})
    /\ inflight = NoInflight
    /\ client = NoClient
    /\ inputs = NoInputs
    /\ ret = NoCall

NextStatus ==
    \/ EngineCreateStore
    \/ \E running \in {0, 1}, ws \in {0, 1}, hb \in Nullable(HeartbeatValues) :
          EngineHeartbeat(running, ws, hb)
    \/ GetRuntimeStatus
    \/ \E enabled \in BOOLEAN : SetBotEnabled(enabled)

SpecStatus == InitStatus /\ [][NextStatus]_vars

----------------------------------------------------------------------------
(* SpecOperations: the four operations of data.ts in one server process,   *)
(* over a store the engine writes to (at most MaxOpsRows child rows)       *)

InitOperations ==
    /\ EmptyStore
    /\ ClosedDb
    /\ dbFileExists \in BOOLEAN
    /\ inflight = NoInflight
    /\ client = NoClient
    /\ inputs = NoInputs
    /\ ret = NoCall

NextOperations ==
    \/ EngineCreateStore
    \/ \E runId \in RunIds : EngineStartRun(runId, 1)
    \/ \E runId \in RunIds, ts \in Timestamps, tri \in EngineTriangleIds,
          pnl \in Nullable(PnlValues) :
          ChildRows < MaxOpsRows /\ EngineAppendTrade(runId, ts, tri, pnl)
    \/ \E runId \in RunIds, ts \in Timestamps, tri \in EngineTriangleIds :
          ChildRows < MaxOpsRows /\ EngineAppendOpportunity(runId, ts, tri)
    \/ \E runId \in RunIds, ts \in Timestamps :
          ChildRows < MaxOpsRows /\ EngineAppendSnapshot(runId, ts)
    \/ GetRuns
    \/ \E runId \in RunIds : GetRunDetails(runId)
    \/ GetRuntimeStatus
    \/ \E enabled \in BOOLEAN : SetBotEnabled(enabled)

SpecOperations == InitOperations /\ [][NextOperations]_vars

----------------------------------------------------------------------------
(* SpecSummary: getRuns and getRunDetails over every store with two runs   *)
(* and up to MaxSummaryTrades trades, a realized_pnl of 0 among the values *)

SummaryPnlValues == {-2, 0, 1}

SummaryRuns ==
    {{[run_id |-> "R1", start_timestamp |-> start, end_timestamp |-> end],
      [run_id |-> "R2", start_timestamp |-> 1, end_timestamp |-> Null]} :
        start \in Timestamps, end \in Nullable(EndTimestamps)}

SummaryTradeLists ==
    UNION {{[i \in 1..k |-> [id |-> i, run_id |-> f[i][1], timestamp |-> 2,
                             triangle_id |-> 7, realized_pnl |-> f[i][2]]] :
               f \in [1..k -> RunIds \X Nullable(SummaryPnlValues)]} :
           k \in 0..MaxSummaryTrades}

InitSummary ==
    /\ run_metadata \in SummaryRuns
    /\ paper_trades \in SummaryTradeLists
    /\ opportunities = <<>>
    /\ portfolio_snapshots = <<>>
    /\ runtime_status = {}
    /\ ClosedDb
    /\ dbFileExists = TRUE
    /\ inflight = NoInflight
    /\ client = NoClient
    /\ inputs = NoInputs
    /\ ret = NoCall

NextSummary ==
    \/ GetRuns
    \/ \E runId \in RunIds : GetRunDetails(runId)

SpecSummary == InitSummary /\ [][NextSummary]_vars

----------------------------------------------------------------------------
(* The boundary layer: the route handlers of app/api.  Each calls one      *)
(* operation of data.ts and turns its result or the error it throws into a *)
(* response.  ret.call is the operation the handler called (NoCall when it *)
(* called none).                                                           *)

Response(status, body) == [status |-> status, body |-> body]

\* The body of an answer that carries a RuntimeStatus
StatusBody(status) ==
    [ok |-> TRUE, botEnabled |-> status.botEnabled, botRunning |-> status.botRunning,
     wsConnected |-> status.wsConnected, dbConnected |-> status.dbConnected,
     lastHeartbeat |-> status.lastHeartbeat]

StatusFailureBody(error) == [ok |-> FALSE, dbConnected |-> FALSE, error |-> error]

\* Variant: an error of getRuns is answered with an empty list
GetRunsRoute_emptyOnError ==
    /\ LET db == getDb(FALSE)
           call == IF db.ok
                   THEN [op |-> "getRuns", ok |-> TRUE, value |-> getRuns]
                   ELSE [op |-> "getRuns", ok |-> FALSE, error |-> db.error]
       IN  /\ readDb' = db.readDb
           /\ writeDb' = db.writeDb
           /\ opens' = db.opens
           /\ ret' = [op |-> "GET /runs", call |-> call,
                      response |-> IF call.ok
                                   THEN Response(200, [runs |-> call.value])
                                   ELSE Response(200, [runs |-> <<>>])]
    /\ UNCHANGED <<storeVars, dbFileExists, inputs, inflight, client>>

\* GET /runs
GetRunsRoute ==
    /\ LET db == getDb(FALSE)
           call == IF db.ok
                   THEN [op |-> "getRuns", ok |-> TRUE, value |-> getRuns]
                   ELSE [op |-> "getRuns", ok |-> FALSE, error |-> db.error]
       IN  /\ readDb' = db.readDb
           /\ writeDb' = db.writeDb
           /\ opens' = db.opens
           /\ ret' = [op |-> "GET /runs", call |-> call,
                      response |-> IF call.ok
                                   THEN Response(200, [runs |-> call.value])
                                   ELSE Response(500, [error |-> call.error])]
    /\ UNCHANGED <<storeVars, dbFileExists, inputs, inflight, client>>

\* GET /runs/{runId}
GetRunRoute(runId) ==
    /\ LET db == getDb(FALSE)
           call == IF db.ok
                   THEN [op |-> "getRunDetails", ok |-> TRUE,
                         value |-> getRunDetails(runId)]
                   ELSE [op |-> "getRunDetails", ok |-> FALSE, error |-> db.error]
       IN  /\ readDb' = db.readDb
           /\ writeDb' = db.writeDb
           /\ opens' = db.opens
           /\ ret' = [op |-> "GET /runs/{runId}", runId |-> runId, call |-> call,
                      response |->
                          IF ~call.ok THEN Response(500, [error |-> call.error])
                          ELSE IF call.value.metadata = Null
                          THEN Response(404, [error |-> "Run not found"])
                          ELSE Response(200, call.value)]
    /\ UNCHANGED <<storeVars, dbFileExists, inputs, inflight, client>>

\* GET /status
GetStatusRoute ==
    /\ LET db == getDb(FALSE)
           read == getRuntimeStatus(runtime_status)
           call == IF ~db.ok
                   THEN [op |-> "getRuntimeStatus", ok |-> FALSE, error |-> db.error]
                   ELSE IF read.ok
                   THEN [op |-> "getRuntimeStatus", ok |-> TRUE, value |-> read.value]
                   ELSE [op |-> "getRuntimeStatus", ok |-> FALSE, error |-> read.error]
       IN  /\ readDb' = db.readDb
           /\ writeDb' = db.writeDb
           /\ opens' = db.opens
           /\ runtime_status' = IF db.ok THEN read.table ELSE runtime_status
           /\ ret' = [op |-> "GET /status", call |-> call,
                      response |-> IF call.ok
                                   THEN Response(200, StatusBody(call.value))
                                   ELSE Response(500, StatusFailureBody(call.error))]
    /\ UNCHANGED <<run_metadata, paper_trades, opportunities, portfolio_snapshots,
                   dbFileExists, inputs, inflight, client>>

\* What a request to POST /status/bot-enabled can carry: a body that is not
\* JSON, or a JSON body whose `enabled` is missing (also a body that is null
\* or no object), null, a boolean, a string or a number
EnabledValues ==
    {[type |-> "undefined"], [type |-> "null"],
     [type |-> "boolean", bool |-> TRUE], [type |-> "boolean", bool |-> FALSE],
     [type |-> "string", str |-> "true"], [type |-> "number", num |-> 1]}

RequestBodies ==
    {[json |-> FALSE]} \cup {[json |-> TRUE, enabled |-> e] : e \in EnabledValues}

\* typeof v
TypeOf(v) == IF v.type = "null" THEN "object" ELSE v.type

\* The truth value of v, as in `enabled ? 1 : 0`
IsTruthy(v) ==
    CASE v.type = "boolean" -> v.bool
      [] v.type = "string" -> v.str # ""
      [] v.type = "number" -> v.num # 0
      [] OTHER -> FALSE

\* Variant: only a missing `enabled` is refused
InvalidPayload_missingOnly(body) == body.enabled.type = "undefined"

\* typeof body?.enabled !== 'boolean'
InvalidPayload(body) == TypeOf(body.enabled) # "boolean"

InvalidJson == "Unexpected token in JSON"

\* POST /status/bot-enabled
PostBotEnabledRoute(body) ==
    /\ LET request == [op |-> "POST /status/bot-enabled", body |-> body]
           done == setBotEnabled(IsTruthy(body.enabled))
       IN  IF ~body.json
           THEN \* request.json() throws, the catch block answers
                /\ ret' = request @@
                       [call |-> NoCall,
                        response |-> Response(500, StatusFailureBody(InvalidJson))]
                /\ UNCHANGED <<runtime_status, readDb, writeDb, opens>>
           ELSE IF InvalidPayload(body)
           THEN /\ ret' = request @@
                       [call |-> NoCall,
                        response |-> Response(400, [ok |-> FALSE,
                                                    message |-> "Invalid payload"])]
                /\ UNCHANGED <<runtime_status, readDb, writeDb, opens>>
           ELSE /\ readDb' = done.readDb
                /\ writeDb' = done.writeDb
                /\ opens' = done.opens
                /\ runtime_status' = done.table
                /\ ret' = request @@
                       [call |-> [op |-> "setBotEnabled"] @@ done.outcome,
                        response |-> IF done.outcome.ok
                                     THEN Response(200, StatusBody(done.outcome.value))
                                     ELSE Response(500,
                                              StatusFailureBody(done.outcome.error))]
    /\ UNCHANGED <<run_metadata, paper_trades, opportunities, portfolio_snapshots,
                   dbFileExists, inputs, inflight, client>>

----------------------------------------------------------------------------
(* SpecHttp: requests to the four routes of one server process, over a     *)
(* store in which the engine starts runs and appends trades                *)

InitHttp ==
    /\ EmptyStore
    /\ ClosedDb
    /\ dbFileExists \in BOOLEAN
    /\ inflight = NoInflight
    /\ client = NoClient
    /\ inputs = NoInputs
    /\ ret = NoCall

NextHttp ==
    \/ EngineCreateStore
    \/ \E runId \in RunIds : EngineStartRun(runId, 1)
    \/ \E runId \in RunIds, ts \in Timestamps, tri \in EngineTriangleIds,
          pnl \in Nullable(PnlValues) :
          ChildRows < MaxOpsRows /\ EngineAppendTrade(runId, ts, tri, pnl)
    \/ GetRunsRoute
    \/ \E runId \in RunIds : GetRunRoute(runId)
    \/ GetStatusRoute
    \/ \E body \in RequestBodies : PostBotEnabledRoute(body)

SpecHttp == InitHttp /\ [][NextHttp]_vars

----------------------------------------------------------------------------
(* SpecDb: getDb called in both modes, every sequence of calls up to       *)
(* MaxDbCalls, with the store file there from the start or created later.  *)
(* inputs.calls are the calls still to make, inputs.made those made.       *)

CallGetDb ==
    /\ inputs.op = "getDb"
    /\ inputs.calls # <<>>
    /\ LET writable == Head(inputs.calls)
           db == getDb(writable)
           call == [op |-> "getDb", writable |-> writable,
                    before |-> [readDb |-> readDb, writeDb |-> writeDb]]
       IN  /\ readDb' = db.readDb
           /\ writeDb' = db.writeDb
           /\ opens' = db.opens
           /\ ret' = IF db.ok
                     THEN call @@ [ok |-> TRUE,
                                   handle |-> IF writable THEN db.writeDb
                                              ELSE db.readDb]
                     ELSE call @@ [ok |-> FALSE, error |-> db.error]
    /\ inputs' = [inputs EXCEPT !.calls = Tail(@),
                                !.made = Append(@, Head(inputs.calls))]
    /\ UNCHANGED <<storeVars, dbFileExists, inflight, client>>

InitDb ==
    /\ EmptyStore
    /\ ClosedDb
    /\ dbFileExists \in BOOLEAN
    /\ inflight = NoInflight
    /\ client = NoClient
    /\ inputs \in [op : {"getDb"}, calls : SeqsUpTo(BOOLEAN, MaxDbCalls),
                  made : {<<>>}]
    /\ ret = NoCall

NextDb ==
    \/ CallGetDb
    \/ EngineCreateStore

SpecDb == InitDb /\ [][NextDb]_vars

----------------------------------------------------------------------------
(* SpecConcurrent: setBotEnabled called by several server processes on one *)
(* store. Inside one process the function runs to its end (it is           *)
(* synchronous); between processes SQLite serialises single statements, so *)
(* the three statements of one call interleave with those of the others.   *)
(* The store file exists: every process's getDb succeeds.                  *)

\* getDb({writable: true}) and the INSERT OR IGNORE statement
SetBotEnabledInsert(c, enabled) ==
    /\ inflight[c].pc = "idle"
    /\ runtime_status' = InsertOrIgnoreStatus(runtime_status)
    /\ inflight' = [inflight EXCEPT ![c] = [pc |-> "inserted", enabled |-> enabled]]
    /\ UNCHANGED <<run_metadata, paper_trades, opportunities, portfolio_snapshots,
                   dbVars, inputs, ret, client>>

\* the UPDATE statement
SetBotEnabledUpdate(c) ==
    /\ inflight[c].pc = "inserted"
    /\ runtime_status' = UpdateBotEnabled(runtime_status, inflight[c].enabled)
    /\ inflight' = [inflight EXCEPT ![c] = [pc |-> "updated", enabled |-> @.enabled]]
    /\ UNCHANGED <<run_metadata, paper_trades, opportunities, portfolio_snapshots,
                   dbVars, inputs, ret, client>>

\* Variant: the row read back is returned with the flag the call asked for
SetBotEnabledReturn_echo(c) ==
    /\ inflight[c].pc = "updated"
    /\ LET read == getRuntimeStatus(runtime_status)
           call == [op |-> "setBotEnabled", caller |-> c,
                    enabled |-> inflight[c].enabled]
       IN  /\ runtime_status' = read.table
           /\ ret' = IF read.ok
                     THEN call @@ [ok |-> TRUE,
                                   value |-> [read.value EXCEPT
                                                 !.botEnabled = inflight[c].enabled]]
                     ELSE call @@ [ok |-> FALSE, error |-> read.error]
    /\ inflight' = [inflight EXCEPT ![c] = Idle]
    /\ UNCHANGED <<run_metadata, paper_trades, opportunities, portfolio_snapshots,
                   dbVars, inputs, client>>

\* return getRuntimeStatus()
SetBotEnabledReturn(c) ==
    /\ inflight[c].pc = "updated"
    /\ LET read == getRuntimeStatus(runtime_status)
           call == [op |-> "setBotEnabled", caller |-> c,
                    enabled |-> inflight[c].enabled]
       IN  /\ runtime_status' = read.table
           /\ ret' = IF read.ok
                     THEN call @@ [ok |-> TRUE, value |-> read.value]
                     ELSE call @@ [ok |-> FALSE, error |-> read.error]
    /\ inflight' = [inflight EXCEPT ![c] = Idle]
    /\ UNCHANGED <<run_metadata, paper_trades, opportunities, portfolio_snapshots,
                   dbVars, inputs, client>>

InitConcurrent ==
    /\ run_metadata = {}
    /\ paper_trades = <<>>
    /\ opportunities = <<>>
    /\ portfolio_snapshots = <<>>
    /\ ClosedDb
    /\ dbFileExists = TRUE
    /\ runtime_status \in {{}} \cup {{r} : r \in StatusRows}
    /\ inflight = NoInflight
    /\ client = NoClient
    /\ inputs = NoInputs
    /\ ret = NoCall

NextConcurrent ==
    \/ \E c \in Callers, enabled \in BOOLEAN : SetBotEnabledInsert(c, enabled)
    \/ \E c \in Callers : SetBotEnabledUpdate(c)
    \/ \E c \in Callers : SetBotEnabledReturn(c)

SpecConcurrent == InitConcurrent /\ [][NextConcurrent]_vars

----------------------------------------------------------------------------
(* SpecAttach: attachOpportunitiesToTrades applied to every pair of lists *)

AttachTradeLists ==
    UNION {{[i \in 1..k |-> [id |-> i, run_id |-> "R1", timestamp |-> f[i][1],
                             triangle_id |-> f[i][2], realized_pnl |-> Val(1)]] :
               f \in [1..k -> AttachTimestamps \X TriangleIds]} :
           k \in 0..MaxAttachTrades}

AttachOppLists ==
    UNION {{[i \in 1..k |-> [id |-> i, run_id |-> "R1", timestamp |-> f[i][1],
                             triangle_id |-> f[i][2]]] :
               f \in [1..k -> AttachTimestamps \X TriangleIds]} :
           k \in 0..MaxAttachOpps}

InitAttach ==
    /\ EmptyStore
    /\ ClosedDb
    /\ dbFileExists = TRUE
    /\ inflight = NoInflight
    /\ client = NoClient
    /\ inputs \in [op : {"attachOpportunitiesToTrades"},
                   trades : AttachTradeLists, opportunities : AttachOppLists]
    /\ ret = NoCall

CallAttach ==
    /\ inputs.op = "attachOpportunitiesToTrades"
    /\ ret = NoCall
    /\ ret' = [op |-> "attachOpportunitiesToTrades",
               value |-> attachOpportunitiesToTrades(inputs.trades, inputs.opportunities)]
    /\ UNCHANGED <<storeVars, dbVars, inputs, inflight, client>>

NextAttach == CallAttach

SpecAttach == InitAttach /\ [][NextAttach]_vars

----------------------------------------------------------------------------
(* SpecEquity: the equity curve and computeMaxDrawdown applied to every    *)
(* list of trades already in timestamp order                               *)

CurveTradeLists ==
    UNION {{[i \in 1..k |-> [id |-> i, run_id |-> "R1", timestamp |-> i,
                             triangle_id |-> 7, realized_pnl |-> f[i]]] :
               f \in [1..k -> Nullable(CurvePnlValues)]} :
           k \in 0..MaxCurveLen}

InitEquity ==
    /\ EmptyStore
    /\ ClosedDb
    /\ dbFileExists = TRUE
    /\ inflight = NoInflight
    /\ client = NoClient
    /\ inputs \in [op : {"computeMaxDrawdown"}, trades : CurveTradeLists]
    /\ ret = NoCall

CallEquity ==
    /\ inputs.op = "computeMaxDrawdown"
    /\ ret = NoCall
    /\ LET equityCurve == buildEquityCurve(inputs.trades)
       IN  ret' = [op |-> "computeMaxDrawdown",
                   equityCurve |-> equityCurve,
                   maxDrawdown |-> computeMaxDrawdown(equityCurve)]
    /\ UNCHANGED <<storeVars, dbVars, inputs, inflight, client>>

NextEquity == CallEquity

SpecEquity == InitEquity /\ [][NextEquity]_vars

----------------------------------------------------------------------------
(* Properties of the correlator *)

\* Indices of the opportunities a trade may be matched with
Eligible(trade, opps) ==
    {j \in 1..Len(opps) : /\ opps[j].triangle_id = trade.triangle_id
                          /\ opps[j].timestamp <= trade.timestamp}

OpportunityAbsent(tw) ==
    \/ "opportunity" \notin DOMAIN tw
    \/ tw.opportunity = Null

LatestEligibleAttached(trade, tw, opps) ==
    IF Eligible(trade, opps) = {}
    THEN OpportunityAbsent(tw)
    ELSE /\ ~OpportunityAbsent(tw)
         /\ \E j \in Eligible(trade, opps) :
               /\ Get(tw.opportunity) = opps[j]
               /\ \A k \in Eligible(trade, opps) : opps[k].timestamp <= opps[j].timestamp

\* C1: attachOpportunitiesToTrades attaches to every trade an opportunity of
\* the same triangle_id with timestamp <= the trade's whose timestamp is the
\* maximum among those; with no such opportunity (also for an empty list)
\* the trade's opportunity is null or unset.
C1_LatestAtOrBefore ==
    ret.op = "attachOpportunitiesToTrades" =>
        /\ Len(ret.value) = Len(inputs.trades)
        /\ \A i \in 1..Len(inputs.trades) :
              /\ ret.value[i].id = inputs.trades[i].id
              /\ ret.value[i].timestamp = inputs.trades[i].timestamp
              /\ ret.value[i].triangle_id = inputs.trades[i].triangle_id
              /\ LatestEligibleAttached(inputs.trades[i], ret.value[i], inputs.opportunities)

\* Opportunities at 10, 20, 30 for triangle 7 and a trade at 25: the one at 20
C1_Witness ==
    /\ ret.op = "attachOpportunitiesToTrades"
    /\ Len(inputs.trades) = 1
    /\ inputs.trades[1].timestamp = 25 /\ inputs.trades[1].triangle_id = 7
    /\ Len(inputs.opportunities) = 3
    /\ \A j \in 1..3 : /\ inputs.opportunities[j].triangle_id = 7
                       /\ inputs.opportunities[j].timestamp = 10 * j
    /\ Get(ret.value[1].opportunity).timestamp = 20

----------------------------------------------------------------------------
(* Properties of the equity curve and the drawdown *)

SetMax(S) == CHOOSE m \in S : \A x \in S : x <= m
SetMin(S) == CHOOSE m \in S : \A x \in S : m <= x

\* max(0, equity[1], ..., equity[i])
RunningPeak(curve, i) == SetMax({0} \cup {curve[j].equity : j \in 1..i})

\* max over i of (peak_i - equity[i]), 0 for the empty curve
DrawdownByDefinition(curve) ==
    IF Len(curve) = 0 THEN 0
    ELSE SetMax({RunningPeak(curve, i) - curve[i].equity : i \in 1..Len(curve)})

PnlOf(trades) == [i \in 1..Len(trades) |-> trades[i].realized_pnl]
EquityOf(curve) == [i \in 1..Len(curve) |-> curve[i].equity]

NonDecreasing(curve) ==
    \A i \in 1..(Len(curve) - 1) : curve[i].equity <= curve[i + 1].equity

\* C3: computeMaxDrawdown returns the maximum over i of (peak_i - equity[i])
\* with peak_i = max(0, equity[0..i]), and 0 for the empty curve; pnl
\* [+2, -5, +1, +4] gives equity [2, -3, -2, 2] and drawdown 5; a curve that
\* is negative throughout has the magnitude of its lowest point as drawdown
\* and an all-positive run has drawdown 0.
C3_DrawdownFromZeroPeak ==
    ret.op = "computeMaxDrawdown" =>
        /\ ret.maxDrawdown = DrawdownByDefinition(ret.equityCurve)
        /\ (PnlOf(inputs.trades) = <<Val(2), Val(-5), Val(1), Val(4)>> =>
               /\ EquityOf(ret.equityCurve) = <<2, -3, -2, 2>>
               /\ ret.maxDrawdown = 5)
        /\ ((Len(ret.equityCurve) > 0
               /\ \A i \in 1..Len(ret.equityCurve) : ret.equityCurve[i].equity < 0) =>
               ret.maxDrawdown =
                   -SetMin({ret.equityCurve[i].equity : i \in 1..Len(ret.equityCurve)}))
        /\ ((\A i \in 1..Len(inputs.trades) :
                 Coalesce(inputs.trades[i].realized_pnl, 0) > 0) =>
               ret.maxDrawdown = 0)

C3_Witness ==
    /\ ret.op = "computeMaxDrawdown"
    /\ PnlOf(inputs.trades) = <<Val(2), Val(-5), Val(1), Val(4)>>
    /\ ret.maxDrawdown = 5

\* C4 as stated: maxDrawdown >= 0, and maxDrawdown = 0 if and only if the
\* equity curve is non-decreasing.
C4_Original ==
    ret.op = "computeMaxDrawdown" =>
        /\ ret.maxDrawdown >= 0
        /\ (ret.maxDrawdown = 0 <=> NonDecreasing(ret.equityCurve))

\* C4 amended: maxDrawdown >= 0, and maxDrawdown = 0 if and only if the
\* equity curve is non-decreasing and its first point is not below 0.
C4_ZeroIffNonDecreasingFromZero ==
    ret.op = "computeMaxDrawdown" =>
        /\ ret.maxDrawdown >= 0
        /\ (ret.maxDrawdown = 0 <=>
               /\ NonDecreasing(ret.equityCurve)
               /\ (Len(ret.equityCurve) > 0 => ret.equityCurve[1].equity >= 0))

\* A curve that rises after a first point below 0 and has a drawdown
C4_Witness ==
    /\ ret.op = "computeMaxDrawdown"
    /\ Len(ret.equityCurve) >= 2
    /\ NonDecreasing(ret.equityCurve)
    /\ ret.equityCurve[1].equity < 0
    /\ ret.equityCurve[Len(ret.equityCurve)].equity > ret.equityCurve[1].equity
    /\ ret.maxDrawdown > 0

----------------------------------------------------------------------------
(* Properties of getRunDetails and getRuns *)

RunExists(runId) == \E rm \in run_metadata : rm.run_id = runId

\* Row ids of the run's trades in the store
TradeIdsOf(runId) ==
    {paper_trades[k].id : k \in {k \in 1..Len(paper_trades) : paper_trades[k].run_id = runId}}

RECURSIVE PnlUpTo(_, _)
PnlUpTo(trades, i) ==
    IF i = 0 THEN 0
    ELSE PnlUpTo(trades, i - 1)
         + (IF trades[i].realized_pnl = Null THEN 0 ELSE trades[i].realized_pnl[1])

DetailsReturned == ret.op = "getRunDetails" /\ ret.ok

\* C2: the equity curve of getRunDetails has one point per returned trade, in
\* the trades' order (ascending timestamp); point i carries trade i's
\* timestamp and the sum of realized_pnl of trades 0..i, a missing
\* realized_pnl counting as 0.
C2_EquityIsRunningSum ==
    DetailsReturned =>
        LET trades == ret.value.trades
            curve == ret.value.equityCurve
        IN  /\ Len(curve) = Len(trades)
            /\ {trades[i].id : i \in 1..Len(trades)} = TradeIdsOf(ret.runId)
            /\ Len(trades) = Cardinality(TradeIdsOf(ret.runId))
            /\ \A i \in 1..(Len(trades) - 1) : trades[i].timestamp <= trades[i + 1].timestamp
            /\ \A i \in 1..Len(trades) :
                  /\ curve[i].timestamp = trades[i].timestamp
                  /\ curve[i].equity = PnlUpTo(trades, i)

\* Two trades returned in the reverse of their insertion order, the first
\* with a realized_pnl, the second without
C2_Witness ==
    /\ DetailsReturned
    /\ Len(ret.value.trades) = 2
    /\ ret.value.trades[1].id = 2 /\ ret.value.trades[2].id = 1
    /\ ret.value.trades[1].realized_pnl = Val(-2)
    /\ ret.value.trades[2].realized_pnl = Null
    /\ ret.value.equityCurve[2].equity = -2

\* C5: for a run with at least one trade, the last value of the equity
\* curve of getRunDetails equals the totalPnl the aggregator (getRunMetadata
\* and getRuns) reports for the same trade rows.
C5_LastEquityIsTotalPnl ==
    (DetailsReturned /\ RunExists(ret.runId) /\ Len(ret.value.equityCurve) > 0) =>
        LET last == ret.value.equityCurve[Len(ret.value.equityCurve)].equity
        IN  /\ ret.value.metadata # Null
            /\ Get(ret.value.metadata).totalPnl = last
            /\ \E i \in 1..Len(getRuns) :
                  /\ getRuns[i].runId = ret.runId
                  /\ getRuns[i].totalPnl = last

\* The run has a trade with a pnl and the other run has a trade row too
C5_Witness ==
    /\ DetailsReturned
    /\ Len(ret.value.equityCurve) >= 1
    /\ ret.value.equityCurve[Len(ret.value.equityCurve)].equity # 0
    /\ Len(paper_trades) > Len(ret.value.trades)
    /\ paper_trades[1].realized_pnl # Null
    /\ paper_trades[2].realized_pnl # Null
    /\ Get(ret.value.metadata).totalPnl # 0

ZeroSummary(summary) ==
    /\ summary.tradeCount = 0
    /\ summary.totalPnl = 0
    /\ summary.averagePnl = <<0, 1>>
    /\ summary.winRate = <<0, 1>>

\* C6: a run of run_metadata without trade rows is listed by getRuns, getRuns
\* and getRunDetails report tradeCount = 0, totalPnl = 0, averagePnl = 0 and
\* winRate = 0 for it, and getRunDetails returns an empty equityCurve and
\* maxDrawdown = 0.
C6_ZeroTradeRun ==
    /\ (ret.op = "getRuns" /\ ret.ok) =>
          \A rm \in run_metadata :
              TradeIdsOf(rm.run_id) = {} =>
                  /\ Cardinality({i \in 1..Len(ret.value) : ret.value[i].runId = rm.run_id}) = 1
                  /\ \A i \in 1..Len(ret.value) :
                        ret.value[i].runId = rm.run_id => ZeroSummary(ret.value[i])
    /\ (DetailsReturned /\ RunExists(ret.runId) /\ TradeIdsOf(ret.runId) = {}) =>
          /\ ret.value.metadata # Null
          /\ ZeroSummary(Get(ret.value.metadata))
          /\ ret.value.equityCurve = <<>>
          /\ ret.value.maxDrawdown = 0

\* getRuns lists a run without trades next to a run that has a winning trade
C6_Witness ==
    /\ ret.op = "getRuns" /\ ret.ok
    /\ Len(ret.value) = 2
    /\ \E i, j \in 1..2 :
          /\ ret.value[i].tradeCount = 0
          /\ ret.value[j].tradeCount > 0
          /\ ret.value[j].winRate # <<0, 1>>

----------------------------------------------------------------------------
(* Properties of the runtime-status gateway *)

StatusRowOf(table) == {r \in table : r.id = 1}

Flag(enabled) == IF enabled THEN 1 ELSE 0

\* The last two steps were setBotEnabled calls with the same value
CalledTwice ==
    /\ ret.op = "setBotEnabled"
    /\ ret.prior.op = "setBotEnabled"
    /\ ret.prior.enabled = ret.enabled

\* C7: setBotEnabled is idempotent: with no other writer in between, a
\* second setBotEnabled(v) leaves the status row as the first call left it
\* and returns the same RuntimeStatus as the first call.
C7_SetBotEnabledIdempotent ==
    CalledTwice =>
        /\ runtime_status = ret.before
        /\ ret.ok = ret.prior.ok
        /\ (ret.ok => ret.value = ret.prior.value)
        /\ (~ret.ok => ret.error = ret.prior.error)

\* The first call created the row, the second call found it
C7_Witness ==
    /\ CalledTwice
    /\ ret.ok
    /\ ret.prior.before = {}
    /\ ret.before # {}
    /\ ~ret.value.botEnabled

\* C8: without a status row, setBotEnabled(v) creates the row with the
\* defaults and applies v, leaving (bot_enabled = v, bot_running = false,
\* ws_connected = false, last_heartbeat absent); with a row, the insert
\* changes nothing and the row differs from the one before in bot_enabled at
\* most.
C8_LazyDefaultRow ==
    (ret.op = "setBotEnabled" /\ dbFileExists) =>
        IF StatusRowOf(ret.before) = {}
        THEN /\ ret.ok
             /\ runtime_status =
                    {[id |-> 1, bot_enabled |-> Flag(ret.enabled), bot_running |-> 0,
                      ws_connected |-> 0, last_heartbeat |-> Null]}
             /\ ret.value = [botEnabled |-> ret.enabled, botRunning |-> FALSE,
                             wsConnected |-> FALSE, dbConnected |-> TRUE,
                             lastHeartbeat |-> Null]
        ELSE /\ ret.ok
             /\ runtime_status =
                    {[r EXCEPT !.bot_enabled = Flag(ret.enabled)] : r \in ret.before}

\* setBotEnabled(false) on a store without a status row
C8_Witness ==
    /\ ret.op = "setBotEnabled" /\ ret.ok
    /\ ret.before = {}
    /\ ~ret.enabled
    /\ \E r \in runtime_status : r.bot_enabled = 0

\* C9: setBotEnabled changes only bot_enabled: the bot_running, ws_connected
\* and last_heartbeat of an existing status row are the same after the call
\* as before it, for every requested value.
C9_OnlyBotEnabledChanges ==
    (ret.op = "setBotEnabled" /\ ret.ok) =>
        \A old \in StatusRowOf(ret.before) :
            /\ Cardinality(StatusRowOf(runtime_status)) = 1
            /\ \A new \in StatusRowOf(runtime_status) :
                  /\ new.bot_running = old.bot_running
                  /\ new.ws_connected = old.ws_connected
                  /\ new.last_heartbeat = old.last_heartbeat

\* The flag of a running, connected bot with a heartbeat is switched off
C9_Witness ==
    /\ ret.op = "setBotEnabled" /\ ret.ok
    /\ \E old \in ret.before :
          /\ old.bot_enabled = 1 /\ old.bot_running = 1 /\ old.ws_connected = 1
          /\ old.last_heartbeat # Null
    /\ \E new \in runtime_status : new.bot_enabled = 0 /\ new.bot_running = 1

\* C10: on a store that opens, getRuntimeStatus fails with the 'row not
\* found' error exactly when there is no status row with id 1 (and succeeds
\* otherwise), and the status table is the same after the call as before it,
\* whether the call succeeded or failed.
C10_ReadNeverCreates ==
    ret.op = "getRuntimeStatus" =>
        /\ runtime_status = ret.before
        /\ ((~ret.ok /\ ret.error = StatusRowMissing) <=>
               (dbFileExists /\ StatusRowOf(ret.before) = {}))
        /\ (ret.ok <=> StatusRowOf(ret.before) # {})

\* A read of an existing store without a status row has failed
C10_Witness ==
    /\ ret.op = "getRuntimeStatus"
    /\ dbFileExists
    /\ readDb = "readonly"
    /\ ~ret.ok
    /\ ret.error = StatusRowMissing
    /\ runtime_status = {}

\* C11: once a setBotEnabled call has completed, every later
\* getRuntimeStatus call succeeds, whatever reads, toggles and engine writes
\* come in between: the status row, once there, is never absent again.
SetBotEnabledCompleted == ret.op = "setBotEnabled" /\ ret.ok

C11_ReadsSucceedAfterFirstWrite ==
    [](SetBotEnabledCompleted => [](ret.op = "getRuntimeStatus" => ret.ok))

\* A read succeeds in a process whose write handle is open, that is, after a
\* setBotEnabled of this process, on a store that had no row to begin with
C11_Witness ==
    /\ ret.op = "getRuntimeStatus"
    /\ ret.ok
    /\ writeDb = "readwrite"
    /\ ret.value.lastHeartbeat = Null
    /\ ~ret.value.botRunning

\* C12: the store never holds more than one status row, and the row it
\* holds has id 1, whatever setBotEnabled calls run, one after the other or
\* with their statements interleaved.
C12_AtMostOneStatusRow ==
    /\ Cardinality(runtime_status) <= 1
    /\ \A r \in runtime_status : r.id = 1

\* Two calls are in flight on a store that had no row: both have run their
\* INSERT OR IGNORE, and there is one row
C12_Witness ==
    /\ inflight[1].pc = "inserted"
    /\ inflight[2].pc = "inserted"
    /\ inflight[1].enabled # inflight[2].enabled
    /\ runtime_status = {DefaultStatusRow}

----------------------------------------------------------------------------
(* Properties of lib/db *)

\* C13: getDb keeps two independent, lazily opened handles: each mode is
\* opened at most once, a mode that is open is returned as cached (no new
\* Database object, the module variable unchanged), and a call for one mode
\* neither opens nor replaces the handle of the other mode.
C13_TwoIndependentHandles ==
    [][/\ opens'.readonly <= 1
       /\ opens'.readwrite <= 1
       /\ readDb # "null" => readDb' = readDb /\ opens'.readonly = opens.readonly
       /\ writeDb # "null" => writeDb' = writeDb /\ opens'.readwrite = opens.readwrite
       /\ ret'.op = "getDb" =>
             /\ IF ret'.writable
                THEN readDb' = readDb /\ opens'.readonly = opens.readonly
                ELSE writeDb' = writeDb /\ opens'.readwrite = opens.readwrite
             /\ ret'.ok =>
                   /\ ret'.handle = (IF ret'.writable THEN "readwrite" ELSE "readonly")
                   /\ ret'.handle = (IF ret'.writable THEN writeDb' ELSE readDb')
             /\ ret'.ok <=> dbFileExists \/ (IF ret'.writable THEN writeDb ELSE readDb) # "null"
      ]_vars

\* The writable handle is asked for while both handles are already open
C13_Witness ==
    /\ ret.op = "getDb"
    /\ ret.writable
    /\ ret.ok
    /\ ret.before = [readDb |-> "readonly", writeDb |-> "readwrite"]
    /\ opens = [readonly |-> 1, readwrite |-> 1]

Operations == {"getRuns", "getRunDetails", "getRuntimeStatus", "setBotEnabled"}

ReadOperations == {"getRuns", "getRunDetails", "getRuntimeStatus"}

\* C14: while the store file does not exist, each of the four operations
\* fails with the store-not-found error of getDb: none returns a value (an
\* empty list, zeroed metrics, a default status), and none creates the store.
C14_StoreNotFoundPropagates ==
    (ret.op \in Operations /\ ~dbFileExists) =>
        /\ ~ret.ok
        /\ ret.error = StoreNotFound
        /\ "value" \notin DOMAIN ret
        /\ EmptyStore
        /\ readDb = "null" /\ writeDb = "null"

C14_Witness ==
    /\ ret.op = "getRuns"
    /\ ~dbFileExists
    /\ ~ret.ok
    /\ ret.error = StoreNotFound

\* C15: getRuns, getRunDetails and getRuntimeStatus leave every table as it
\* is, return through the read-only handle and neither open nor replace the
\* writable handle; of the four operations only setBotEnabled changes a
\* table or opens the writable handle.
C15_OnlySetBotEnabledWrites ==
    [][/\ ret'.op \in ReadOperations =>
             /\ UNCHANGED storeVars
             /\ writeDb' = writeDb
             /\ opens'.readwrite = opens.readwrite
             /\ ret'.ok => readDb' = "readonly"
       /\ (/\ ret'.op \in Operations
           /\ \/ storeVars' # storeVars
              \/ writeDb' # writeDb
              \/ opens'.readwrite # opens.readwrite) => ret'.op = "setBotEnabled"
      ]_vars

\* A read of run details on a store with trades and a status row, in a
\* process whose writable handle is open
C15_Witness ==
    /\ ret.op = "getRunDetails"
    /\ ret.ok
    /\ ret.value.trades # <<>>
    /\ runtime_status # {}
    /\ writeDb = "readwrite"

----------------------------------------------------------------------------
(* Properties of the run summaries *)

RunsReturned == ret.op = "getRuns" /\ ret.ok

\* C16: getRuns returns one RunSummary for each row of run_metadata and
\* nothing else (a run without trades has its summary, a run with several
\* trades has one summary), newest start_timestamp first.
C16_OneSummaryPerRunNewestFirst ==
    RunsReturned =>
        LET runs == ret.value
        IN  /\ Len(runs) = Cardinality(run_metadata)
            /\ \A rm \in run_metadata :
                  \E i \in 1..Len(runs) :
                     /\ runs[i].runId = rm.run_id
                     /\ runs[i].startTimestamp = rm.start_timestamp
                     /\ runs[i].endTimestamp = rm.end_timestamp
            /\ \A i, j \in 1..Len(runs) : i # j => runs[i].runId # runs[j].runId
            /\ \A i, j \in 1..Len(runs) :
                  i < j => runs[i].startTimestamp >= runs[j].startTimestamp

\* Two runs, the newer one (R2) without trades, the older one with two
C16_Witness ==
    /\ RunsReturned
    /\ Len(ret.value) = 2
    /\ ret.value[1].runId = "R2"
    /\ ret.value[1].startTimestamp > ret.value[2].startTimestamp
    /\ ret.value[1].tradeCount = 0
    /\ ret.value[2].tradeCount = 2

\* The summaries in the result of the last call
SummariesReturned ==
    IF RunsReturned THEN {ret.value[i] : i \in 1..Len(ret.value)}
    ELSE IF DetailsReturned /\ ret.value.metadata # Null THEN {Get(ret.value.metadata)}
    ELSE {}

TradesOf(runId) == SelectSeq(paper_trades, LAMBDA t : t.run_id = runId)

PnlPresent(trades) == SelectSeq(trades, LAMBDA t : t.realized_pnl # Null)

PnlSum(trades) == PnlUpTo(trades, Len(trades))

Wins(trades) ==
    Cardinality({i \in 1..Len(trades) :
                    trades[i].realized_pnl # Null /\ trades[i].realized_pnl[1] > 0})

\* q is the quotient n / d (d > 0)
IsQuotient(q, n, d) == q # Null /\ q[2] > 0 /\ q[1] * d = n * q[2]

\* C17 as stated: for every run, whatever its trade rows, tradeCount is the
\* number of the run's trades, totalPnl the sum of their realized_pnl,
\* averagePnl = totalPnl / tradeCount and winRate = wins / tradeCount (both 0
\* without trades), a realized_pnl of 0 not being a win.
C17_Original ==
    \A s \in SummariesReturned :
        LET trades == TradesOf(s.runId)
            n == Len(trades)
        IN  /\ s.tradeCount = n
            /\ s.totalPnl = PnlSum(trades)
            /\ n = 0 => s.averagePnl = Zero /\ s.winRate = Zero
            /\ n > 0 => /\ IsQuotient(s.averagePnl, PnlSum(trades), n)
                        /\ IsQuotient(s.winRate, Wins(trades), n)

\* C17, what the query computes: tradeCount, totalPnl and winRate are as
\* stated; averagePnl is totalPnl divided by the number of trades that have
\* a realized_pnl (null when the run has trades and none has one), so it is
\* totalPnl / tradeCount exactly when every trade of the run has a
\* realized_pnl.
C17_AverageOverPresentPnl ==
    \A s \in SummariesReturned :
        LET trades == TradesOf(s.runId)
            n == Len(trades)
            present == Len(PnlPresent(trades))
        IN  /\ s.tradeCount = n
            /\ s.totalPnl = PnlSum(trades)
            /\ n = 0 => s.averagePnl = Zero /\ s.winRate = Zero
            /\ n > 0 => /\ IsQuotient(s.winRate, Wins(trades), n)
                        /\ IF present = 0 THEN s.averagePnl = Null
                           ELSE IsQuotient(s.averagePnl, PnlSum(trades), present)
            /\ present = n => (n > 0 => IsQuotient(s.averagePnl, PnlSum(trades), n))

\* Three trades of one run with realized_pnl 1, 0 and -2: one win of three,
\* an average of -1/3
C17_Witness ==
    /\ RunsReturned
    /\ \E i \in 1..Len(ret.value) :
          /\ ret.value[i].tradeCount = 3
          /\ {t.realized_pnl : t \in {paper_trades[k] : k \in 1..Len(paper_trades)}}
                = {Val(1), Val(0), Val(-2)}
          /\ ret.value[i].totalPnl = -1
          /\ ret.value[i].winRate = <<1, 3>>
          /\ ret.value[i].averagePnl = <<-1, 3>>

\* C18: a run's summary has status "completed" exactly when the run's
\* end_timestamp is present and "active" otherwise; durationSeconds is
\* end_timestamp - start_timestamp when end_timestamp is present and null
\* otherwise; so status is "completed" iff durationSeconds is not null.
C18_StatusAndDuration ==
    \A s \in SummariesReturned :
        \A rm \in run_metadata :
            rm.run_id = s.runId =>
                /\ s.status = (IF rm.end_timestamp # Null THEN "completed" ELSE "active")
                /\ s.durationSeconds =
                      (IF rm.end_timestamp # Null
                       THEN Val(rm.end_timestamp[1] - rm.start_timestamp)
                       ELSE Null)
                /\ s.status = "completed" <=> s.durationSeconds # Null

\* getRuns lists a run that ended in the second it started (duration 0)
\* next to a run still active
C18_Witness ==
    /\ RunsReturned
    /\ \E i, j \in 1..Len(ret.value) :
          /\ ret.value[i].status = "completed"
          /\ ret.value[i].durationSeconds = Val(0)
          /\ ret.value[j].status = "active"
          /\ ret.value[j].durationSeconds = Null

----------------------------------------------------------------------------
(* Properties of the boundary layer *)

\* C19: for a run_id that is not in run_metadata (the store being there),
\* getRunDetails returns, with metadata = null as getRunMetadata returned it,
\* and GET /runs/{runId} answers 404 "Run not found", not 500.
C19_MissingRunIsNotFound ==
    (ret.op = "GET /runs/{runId}" /\ dbFileExists /\ ~RunExists(ret.runId)) =>
        /\ ret.call.op = "getRunDetails"
        /\ ret.call.ok
        /\ ret.call.value.metadata = Null
        /\ ret.call.value.trades = <<>>
        /\ ret.call.value.equityCurve = <<>>
        /\ ret.call.value.maxDrawdown = 0
        /\ ret.response = Response(404, [error |-> "Run not found"])

\* R2 is asked for while the store holds R1 and a trade of R1
C19_Witness ==
    /\ ret.op = "GET /runs/{runId}"
    /\ ret.runId = "R2"
    /\ ~RunExists("R2")
    /\ RunExists("R1")
    /\ paper_trades # <<>>
    /\ ret.response.status = 404

\* C20: a POST /status/bot-enabled whose JSON body has no boolean `enabled`
\* (missing, null, a string, a number) is answered 400; setBotEnabled is not
\* called, the status table - with or without its row - and the handles of
\* lib/db stay as they are.
C20_InvalidPayloadRejected ==
    [][(/\ ret'.op = "POST /status/bot-enabled"
        /\ ret'.body.json
        /\ ret'.body.enabled.type # "boolean") =>
           /\ ret'.response = Response(400, [ok |-> FALSE, message |-> "Invalid payload"])
           /\ ret'.call = NoCall
           /\ UNCHANGED <<storeVars, dbVars>>
      ]_vars

\* The string "true" is refused while the flag is off
C20_Witness ==
    /\ ret.op = "POST /status/bot-enabled"
    /\ ret.body.json
    /\ ret.body.enabled = [type |-> "string", str |-> "true"]
    /\ ret.response.status = 400
    /\ \E r \in runtime_status : r.bot_enabled = 0

Routes == {"GET /runs", "GET /runs/{runId}", "GET /status", "POST /status/bot-enabled"}

RunRoutes == {"GET /runs", "GET /runs/{runId}"}

\* The handler's operation threw
OperationFailed == ret.op \in Routes /\ ret.call # NoCall /\ ~ret.call.ok

\* C21: when the operation a route calls throws, the route answers a
\* failure: 500 with {error: message} on GET /runs and GET /runs/{runId}, 500
\* with {ok: false, dbConnected: false, error: message} on GET /status and
\* POST /status/bot-enabled; a 200 is only answered after the operation
\* returned, and a body with ok: true has dbConnected = true.
C21_ErrorsBecomeFailures ==
    /\ OperationFailed =>
          /\ ret.response.status = 500
          /\ ret.response.body =
                (IF ret.op \in RunRoutes THEN [error |-> ret.call.error]
                 ELSE [ok |-> FALSE, dbConnected |-> FALSE, error |-> ret.call.error])
    /\ (ret.op \in Routes /\ ret.response.status = 200) =>
          ret.call # NoCall /\ ret.call.ok
    /\ (ret.op \in Routes /\ "ok" \in DOMAIN ret.response.body) =>
          (ret.response.body.ok => /\ ret.response.status = 200
                                   /\ ret.response.body.dbConnected)

\* GET /status on a store that has no status row
C21_Witness ==
    /\ ret.op = "GET /status"
    /\ dbFileExists
    /\ ~ret.call.ok
    /\ ret.call.error = StatusRowMissing
    /\ ret.response = Response(500, StatusFailureBody(StatusRowMissing))

----------------------------------------------------------------------------
(* Freshness of the results *)

IdsOf(rows) == {rows[k].id : k \in 1..Len(rows)}

RowIdsOf(table, runId) ==
    {table[k].id : k \in {k \in 1..Len(table) : table[k].run_id = runId}}

\* C22: nothing is answered from an earlier call: a getRuns, getRunDetails
\* or getRuntimeStatus result shows the runs, the trades, opportunities and
\* snapshots and the status row that are in the store when the call is
\* made, whatever the engine and setBotEnabled committed before it.
C22_ResultsAreFresh ==
    /\ RunsReturned =>
          /\ {ret.value[i].runId : i \in 1..Len(ret.value)}
                = {rm.run_id : rm \in run_metadata}
          /\ \A i \in 1..Len(ret.value) :
                /\ ret.value[i].tradeCount
                      = Cardinality(RowIdsOf(paper_trades, ret.value[i].runId))
                /\ ret.value[i].totalPnl = PnlSum(TradesOf(ret.value[i].runId))
                /\ \E rm \in run_metadata :
                      /\ rm.run_id = ret.value[i].runId
                      /\ rm.start_timestamp = ret.value[i].startTimestamp
                      /\ rm.end_timestamp = ret.value[i].endTimestamp
    /\ DetailsReturned =>
          /\ ret.value.metadata # Null <=> RunExists(ret.runId)
          /\ IdsOf(ret.value.trades) = RowIdsOf(paper_trades, ret.runId)
          /\ IdsOf(ret.value.opportunities) = RowIdsOf(opportunities, ret.runId)
          /\ IdsOf(ret.value.snapshots) = RowIdsOf(portfolio_snapshots, ret.runId)
          /\ ret.value.metadata # Null =>
                Get(ret.value.metadata).tradeCount = Len(ret.value.trades)
    /\ (ret.op = "getRuntimeStatus" /\ ret.ok) =>
          \E r \in runtime_status :
              /\ r.id = 1
              /\ ret.value.botEnabled = (r.bot_enabled # 0)
              /\ ret.value.botRunning = (r.bot_running # 0)
              /\ ret.value.wsConnected = (r.ws_connected # 0)

\* getRuns lists two runs, one with a trade, in a process that has toggled
\* the flag before: rows and runs were committed after the handles opened
C22_Witness ==
    /\ RunsReturned
    /\ Len(ret.value) = 2
    /\ \E i \in 1..2 : ret.value[i].tradeCount = 1
    /\ writeDb = "readwrite"
    /\ \E r \in runtime_status : r.bot_enabled = 0

----------------------------------------------------------------------------
(* Properties of concurrent setBotEnabled calls *)

\* Caller c commits its UPDATE in this step
Updates(c) == inflight[c].pc = "inserted" /\ inflight'[c].pc = "updated"

\* Caller c returns in this step
Returns(c) == inflight[c].pc = "updated" /\ inflight'[c].pc = "idle"

\* C23: with the statements of several setBotEnabled calls interleaving
\* freely, no call fails, and the status row always carries the value of
\* the UPDATE committed last: an UPDATE leaves one row with the value its
\* call asked for, and no other statement changes the flag of a row that is
\* there - so the store ends with the value of the last UPDATE.
C23_LastUpdateWins ==
    [][/\ \A c \in Callers :
             Updates(c) =>
                 /\ Cardinality(runtime_status') = 1
                 /\ \A r \in runtime_status' :
                       r.id = 1 /\ r.bot_enabled = Flag(inflight[c].enabled)
       /\ (\A c \in Callers : ~Updates(c)) =>
             \A r \in runtime_status :
                 \E r2 \in runtime_status' : r2.bot_enabled = r.bot_enabled
       /\ \A c \in Callers :
             Returns(c) => /\ ret'.op = "setBotEnabled"
                           /\ ret'.caller = c
                           /\ ret'.ok
                           /\ Cardinality(runtime_status') = 1
      ]_vars

\* Both calls are over; caller 1, which asked for off, has returned last and
\* the flag is on: caller 2's UPDATE came after caller 1's
C23_Witness ==
    /\ inflight = NoInflight
    /\ client = NoClient
    /\ ret.op = "setBotEnabled"
    /\ ret.caller = 1
    /\ ~ret.enabled
    /\ ret.ok
    /\ \A r \in runtime_status : r.bot_enabled = 1
    /\ Cardinality(runtime_status) = 1

----------------------------------------------------------------------------
(* The correlator's tie-break *)

\* Positions of the eligible opportunities that have the latest timestamp
LatestEligible(trade, opps) ==
    {j \in Eligible(trade, opps) :
        \A k \in Eligible(trade, opps) : opps[k].timestamp <= opps[j].timestamp}

\* C24: the tie-break is fixed by the input alone: when several eligible
\* opportunities share the latest timestamp, the one attached is the one
\* that comes first in the opportunity list given (the sort is stable), so
\* every run on the same two lists attaches the same opportunity.
C24_FirstOfTiedAttached ==
    ret.op = "attachOpportunitiesToTrades" =>
        /\ Len(ret.value) = Len(inputs.trades)
        /\ \A i \in 1..Len(inputs.trades) :
              LET tied == LatestEligible(inputs.trades[i], inputs.opportunities)
              IN  tied # {} =>
                      /\ ~OpportunityAbsent(ret.value[i])
                      /\ \E j \in tied :
                            /\ \A k \in tied : j <= k
                            /\ Get(ret.value[i].opportunity) = inputs.opportunities[j]

\* The second and the third opportunity are tied at 20 for a trade at 25,
\* the first is earlier: the second is attached
C24_Witness ==
    /\ ret.op = "attachOpportunitiesToTrades"
    /\ Len(inputs.trades) = 1
    /\ inputs.trades[1].timestamp = 25
    /\ Len(inputs.opportunities) = 3
    /\ \A j \in 1..3 : inputs.opportunities[j].triangle_id = inputs.trades[1].triangle_id
    /\ inputs.opportunities[1].timestamp = 10
    /\ inputs.opportunities[2].timestamp = 20
    /\ inputs.opportunities[3].timestamp = 20
    /\ Get(ret.value[1].opportunity).id = 2

----------------------------------------------------------------------------
(* What a setBotEnabled call returns when another call interleaves *)

\* C25 as stated: a call that returns successfully returns the flag it
\* asked for, whatever the other calls did between its UPDATE and its read.
C25_Original ==
    (ret.op = "setBotEnabled" /\ ret.ok) => ret.value.botEnabled = ret.enabled

\* Caller c has committed its UPDATE and the row still carries its value
Intact(c) ==
    /\ inflight[c].pc = "updated"
    /\ \A r \in runtime_status : r.bot_enabled = Flag(inflight[c].enabled)

\* C25, amended: setBotEnabled(v) returns the status row as it is at the
\* call's final read. Its botEnabled is v as long as no other call's UPDATE
\* commits between this call's UPDATE and its read; otherwise it is the
\* value the row carries then, that of the UPDATE committed last.
C25_ReturnsRowAtFinalRead ==
    [][\A c \in Callers :
          /\ Updates(c) => Intact(c)'
          /\ (Intact(c) /\ ~Returns(c)
                /\ \A d \in Callers \ {c} : ~Updates(d)) => Intact(c)'
          /\ Returns(c) =>
                /\ ret'.ok
                /\ \A r \in runtime_status :
                      ret'.value.botEnabled = (r.bot_enabled = 1)
                /\ Intact(c) => ret'.value.botEnabled = inflight[c].enabled
      ]_vars

\* Caller 1 asked for off and has just been handed a status that is on:
\* caller 2, still before its own read, committed its UPDATE in between
C25_Witness ==
    /\ ret.op = "setBotEnabled"
    /\ ret.caller = 1
    /\ ret.ok
    /\ ~ret.enabled
    /\ ret.value.botEnabled
    /\ inflight[1] = Idle
    /\ inflight[2].pc = "updated"
    /\ inflight[2].enabled

----------------------------------------------------------------------------
(* SpecDetails: getRunDetails query by query. The function itself runs to  *)
(* its end inside the server process, but each of its four queries is a    *)
(* read of its own on the store, and the engine, another process, commits  *)
(* its appends between them. The call in progress is kept in inflight[1].  *)

\* const metadata = getRunMetadata(runId), the first getDb() of the call
DetailsMetadata(runId) ==
    /\ inflight[1].pc = "idle"
    /\ LET db == getDb(FALSE)
       IN  /\ readDb' = db.readDb
           /\ writeDb' = db.writeDb
           /\ opens' = db.opens
           /\ IF db.ok
              THEN /\ inflight' = [inflight EXCEPT ![1] =
                                      [pc |-> "metadata", runId |-> runId,
                                       metadata |-> getRunMetadata(runId)]]
                   /\ ret' = [op |-> "getRunMetadata", runId |-> runId]
              ELSE /\ inflight' = inflight
                   /\ ret' = [op |-> "getRunDetails", runId |-> runId,
                              ok |-> FALSE, error |-> db.error]
    /\ UNCHANGED <<storeVars, dbFileExists, inputs, client>>

\* const opportunities = getOpportunities(runId)
DetailsOpportunities ==
    /\ inflight[1].pc = "metadata"
    /\ inflight' = [inflight EXCEPT ![1] =
                       [pc |-> "opportunities", runId |-> @.runId,
                        metadata |-> @.metadata,
                        opportunities |-> getOpportunities(@.runId)]]
    /\ ret' = [op |-> "getOpportunities", runId |-> inflight[1].runId]
    /\ UNCHANGED <<storeVars, dbVars, inputs, client>>

\* const snapshots = getPortfolioSnapshots(runId)
DetailsSnapshots ==
    /\ inflight[1].pc = "opportunities"
    /\ inflight' = [inflight EXCEPT ![1] =
                       [pc |-> "snapshots", runId |-> @.runId,
                        metadata |-> @.metadata,
                        opportunities |-> @.opportunities,
                        snapshots |-> getPortfolioSnapshots(@.runId)]]
    /\ ret' = [op |-> "getPortfolioSnapshots", runId |-> inflight[1].runId]
    /\ UNCHANGED <<storeVars, dbVars, inputs, client>>

\* const trades = getTrades(runId) and the rest of the function, which
\* touches the store no more
DetailsTrades ==
    /\ inflight[1].pc = "snapshots"
    /\ LET call == inflight[1]
           trades == getTrades(call.runId)
           tradesWithOpp == attachOpportunitiesToTrades(trades, call.opportunities)
           equityCurve == buildEquityCurve(tradesWithOpp)
       IN  ret' = [op |-> "getRunDetails", runId |-> call.runId, ok |-> TRUE,
                   value |-> [metadata |-> call.metadata,
                              trades |-> tradesWithOpp,
                              opportunities |-> call.opportunities,
                              snapshots |-> call.snapshots,
                              equityCurve |-> equityCurve,
                              maxDrawdown |-> computeMaxDrawdown(equityCurve)]]
    /\ inflight' = [inflight EXCEPT ![1] = Idle]
    /\ UNCHANGED <<storeVars, dbVars, inputs, client>>

InitDetails ==
    /\ EmptyStore
    /\ ClosedDb
    /\ dbFileExists \in BOOLEAN
    /\ inflight = NoInflight
    /\ client = NoClient
    /\ inputs = NoInputs
    /\ ret = NoCall

NextDetails ==
    \/ EngineCreateStore
    \/ EngineStartRun("R1", 1)
    \/ \E ts \in Timestamps, tri \in EngineTriangleIds, pnl \in Nullable(PnlValues) :
          EngineAppendTrade("R1", ts, tri, pnl)
    \/ \E ts \in Timestamps, tri \in EngineTriangleIds :
          EngineAppendOpportunity("R1", ts, tri)
    \/ \E ts \in Timestamps : EngineAppendSnapshot("R1", ts)
    \/ DetailsMetadata("R1")
    \/ DetailsOpportunities
    \/ DetailsSnapshots
    \/ DetailsTrades

SpecDetails == InitDetails /\ [][NextDetails]_vars

----------------------------------------------------------------------------
(* getRunDetails while the engine appends *)

\* The call in progress hands out its response in this step
DetailsReturns == inflight[1].pc = "snapshots" /\ inflight'[1].pc = "idle"

\* C26 as stated: in every response for an existing run, whatever the
\* engine appended between the four queries, metadata.tradeCount is the
\* number of returned trades and metadata.totalPnl the last equity value.
C26_Original ==
    (ret.op = "getRunDetails" /\ ret.ok /\ ret.value.metadata # Null) =>
        LET metadata == Get(ret.value.metadata)
            curve == ret.value.equityCurve
        IN  /\ metadata.tradeCount = Len(ret.value.trades)
            /\ curve # <<>> => metadata.totalPnl = curve[Len(curve)].equity

\* C26, amended: the metadata of a response describes the run's trades
\* committed at the metadata query. tradeCount is never more than the
\* number of returned trades; when no trade of the run is appended between
\* the metadata query and the trades query, tradeCount is the number of
\* returned trades and totalPnl the last equity value (0 without trades).
C26_ConsistentUnlessTradeAppended ==
    [][/\ (inflight[1].pc = "idle" /\ inflight'[1].pc = "metadata"
           /\ inflight'[1].metadata # Null) =>
              LET metadata == Get(inflight'[1].metadata)
                  stored == TradesOf(inflight'[1].runId)
              IN  /\ metadata.tradeCount = Len(stored)
                  /\ metadata.totalPnl = PnlSum(stored)
       /\ (DetailsReturns /\ inflight[1].metadata # Null) =>
              LET metadata == Get(ret'.value.metadata)
                  curve == ret'.value.equityCurve
                  stored == TradesOf(inflight[1].runId)
              IN  /\ metadata = Get(inflight[1].metadata)
                  /\ Len(ret'.value.trades) = Len(stored)
                  /\ metadata.tradeCount <= Len(ret'.value.trades)
                  /\ Len(curve) = Len(ret'.value.trades)
                  /\ metadata.tradeCount = Len(stored) =>
                        metadata.totalPnl = IF curve = <<>> THEN 0
                                            ELSE curve[Len(curve)].equity
      ]_vars

\* A response whose metadata counts one trade and which returns two: the
\* second was appended after the metadata query
C26_Witness ==
    /\ ret.op = "getRunDetails"
    /\ ret.ok
    /\ ret.value.metadata # Null
    /\ Get(ret.value.metadata).tradeCount = 1
    /\ Len(ret.value.trades) = 2
    /\ Get(ret.value.metadata).totalPnl # ret.value.equityCurve[2].equity

----------------------------------------------------------------------------
(* The annotation of the trades while the engine appends *)

\* The run's opportunities in the store
OpportunitiesOf(runId) == SelectSeq(opportunities, LAMBDA o : o.run_id = runId)

\* C27 as stated: every returned trade carries the latest opportunity of
\* its triangle_id at or before it among all the run's opportunities that
\* are committed when the trades are read, also those the engine appended
\* after the opportunities query.
C27_Original ==
    [][DetailsReturns =>
          \A i \in 1..Len(ret'.value.trades) :
              LatestEligibleAttached(ret'.value.trades[i], ret'.value.trades[i],
                                     OpportunitiesOf(inflight[1].runId))
      ]_vars

\* C27, amended: every returned trade carries the latest opportunity of its
\* triangle_id at or before it among the opportunities returned in the same
\* response, which are the run's opportunities committed at the
\* opportunities query. An opportunity appended after that query is not
\* looked at; when none is appended before the trades query, the
\* annotation is the latest among all committed opportunities of the run.
C27_LatestAmongReturnedOpportunities ==
    [][/\ (inflight[1].pc = "metadata" /\ inflight'[1].pc = "opportunities") =>
              LET read == inflight'[1].opportunities
                  stored == OpportunitiesOf(inflight[1].runId)
              IN  {read[j] : j \in 1..Len(read)} = {stored[j] : j \in 1..Len(stored)}
       /\ DetailsReturns =>
              LET returned == ret'.value.opportunities
                  stored == OpportunitiesOf(inflight[1].runId)
              IN  /\ returned = inflight[1].opportunities
                  /\ {returned[j] : j \in 1..Len(returned)}
                         \subseteq {stored[j] : j \in 1..Len(stored)}
                  /\ \A i \in 1..Len(ret'.value.trades) :
                        /\ LatestEligibleAttached(ret'.value.trades[i],
                                                  ret'.value.trades[i], returned)
                        /\ Len(returned) = Len(stored) =>
                              LatestEligibleAttached(ret'.value.trades[i],
                                                     ret'.value.trades[i], stored)
      ]_vars

\* A response with one trade and no opportunity, on a store that holds an
\* opportunity of the trade's triangle that is not later than the trade:
\* opportunity and trade were appended after the opportunities query
C27_Witness ==
    /\ ret.op = "getRunDetails"
    /\ ret.ok
    /\ ret.value.opportunities = <<>>
    /\ Len(ret.value.trades) = 1
    /\ OpportunityAbsent(ret.value.trades[1])
    /\ Len(opportunities) = 1
    /\ opportunities[1].run_id = ret.runId
    /\ opportunities[1].triangle_id = ret.value.trades[1].triangle_id
    /\ opportunities[1].timestamp <= ret.value.trades[1].timestamp

----------------------------------------------------------------------------
(* Equity and drawdown as the run grows *)

IsPrefix(s, t) == Len(s) <= Len(t) /\ SubSeq(t, 1, Len(s)) = s

\* The trade appended last belongs to run runId and is not earlier than any
\* other trade of the run
LatestTradeAppendedLast(runId) ==
    /\ paper_trades # <<>>
    /\ LET new == paper_trades[Len(paper_trades)]
       IN  /\ new.run_id = runId
           /\ \A i \in 1..Len(paper_trades) - 1 :
                 paper_trades[i].run_id = runId =>
                     paper_trades[i].timestamp <= new.timestamp

\* What getRunDetails(runId) computed from the trades before the last
\* append (the table only grows at its end)
CurveBeforeAppend(runId) ==
    LET table == SubSeq(paper_trades, 1, Len(paper_trades) - 1)
        trades == OrderByTimestampAsc(WhereRunId(table, runId))
    IN  buildEquityCurve(attachOpportunitiesToTrades(trades, getOpportunities(runId)))

\* C28: when a trade not earlier than every trade of its run is appended,
\* the equity curve getRunDetails computed before the append is a prefix of
\* the one it computes after it, one point longer, and maxDrawdown does not
\* decrease. (Appending several such trades is this step repeated.)
C28_MonotoneUnderAppends ==
    \A runId \in RunIds :
        LatestTradeAppendedLast(runId) =>
            LET before == CurveBeforeAppend(runId)
                after == getRunDetails(runId)
            IN  /\ IsPrefix(before, after.equityCurve)
                /\ Len(after.equityCurve) = Len(before) + 1
                /\ after.maxDrawdown >= computeMaxDrawdown(before)

\* Two trades of one run at the same timestamp, +1 then -2: the curve is
\* 1, -1, the first point what the curve of the first trade alone was, and
\* the drawdown has grown from 0 to 2
C28_Witness ==
    /\ ret.op = "getRunDetails"
    /\ ret.ok
    /\ Len(ret.value.equityCurve) = 2
    /\ ret.value.equityCurve[1].timestamp = ret.value.equityCurve[2].timestamp
    /\ ret.value.equityCurve[1].equity = 1
    /\ ret.value.equityCurve[2].equity = -1
    /\ ret.value.maxDrawdown = 2
    /\ ret.value.trades[1].id = 1
    /\ ret.value.trades[2].id = 2

----------------------------------------------------------------------------
(* A failed open *)

\* C29: a getDb call fails only while the store file is missing and its
\* mode is unset, with the store-not-found error, and it leaves both module
\* variables as they were: its own mode unset, the other mode's handle
\* untouched. Whatever calls failed before, a call made once the file is
\* there succeeds and returns the open handle of its mode.
C29_FailedOpenIsNotCached ==
    [][ret'.op = "getDb" =>
          LET mine == IF ret'.writable THEN writeDb ELSE readDb
              mineAfter == IF ret'.writable THEN writeDb' ELSE readDb'
              mode == IF ret'.writable THEN "readwrite" ELSE "readonly"
          IN  /\ ~ret'.ok =>
                    /\ ret'.error = StoreNotFound
                    /\ ~dbFileExists
                    /\ mine = "null"
                    /\ readDb' = readDb
                    /\ writeDb' = writeDb
                    /\ opens' = opens
              /\ dbFileExists =>
                    /\ ret'.ok
                    /\ ret'.handle = mode
                    /\ mineAfter = mode
              /\ readDb' \in {"null", "readonly"}
              /\ writeDb' \in {"null", "readwrite"}
      ]_vars

\* Two calls for the read handle have been made and only the second one
\* opened the store: the first failed, the file appeared, the second found
\* the handle unset and succeeded; the write handle is still unset
C29_Witness ==
    /\ inputs.op = "getDb"
    /\ inputs.made = <<FALSE, FALSE>>
    /\ ret.op = "getDb"
    /\ ~ret.writable
    /\ ret.ok
    /\ ret.before = [readDb |-> "null", writeDb |-> "null"]
    /\ readDb = "readonly"
    /\ writeDb = "null"
    /\ opens = [readonly |-> 1, readwrite |-> 0]

----------------------------------------------------------------------------
(* SpecClient: the SystemStatus component in the browser and the two       *)
(* status routes on the server. A request is sent, handled by its route    *)
(* (the answer is computed from the store as it is then), and its answer   *)
(* is delivered; answers are delivered in any order, and any request can   *)
(* fail in the network before or after the server has handled it. ret      *)
(* records the last handleToggle call.                                     *)

NetworkError == "Failed to fetch"

\* checked={Boolean(status?.botEnabled)}
Displayed ==
    /\ client.status # Null
    /\ "botEnabled" \in DOMAIN Get(client.status)
    /\ Get(client.status).botEnabled

\* disabled={togglePending || loading}
Disabled == client.togglePending \/ client.loading

RemoveAt(s, i) == SubSeq(s, 1, i - 1) \o SubSeq(s, i + 1, Len(s))

\* fetchStatus is called (on mount, then by the interval timer): the request
FetchStatus ==
    /\ Len(client.polls) < MaxPolls
    /\ client' = [client EXCEPT !.polls = Append(@, [phase |-> "sent"])]
    /\ UNCHANGED <<storeVars, dbVars, inputs, inflight, ret>>

\* GET /status handles the request of poll i
ServeStatus(i) ==
    /\ i \in 1..Len(client.polls)
    /\ client.polls[i].phase = "sent"
    /\ LET db == getDb(FALSE)
           read == getRuntimeStatus(runtime_status)
           response == IF ~db.ok THEN Response(500, StatusFailureBody(db.error))
                       ELSE IF read.ok THEN Response(200, StatusBody(read.value))
                       ELSE Response(500, StatusFailureBody(read.error))
       IN  /\ readDb' = db.readDb
           /\ writeDb' = db.writeDb
           /\ opens' = db.opens
           /\ runtime_status' = IF db.ok THEN read.table ELSE runtime_status
           /\ client' = [client EXCEPT !.polls[i] =
                            [phase |-> "answered", response |-> response]]
    /\ UNCHANGED <<run_metadata, paper_trades, opportunities, portfolio_snapshots,
                   dbFileExists, inputs, inflight, ret>>

\* The catch block of fetchStatus
FetchStatusFailed(message) ==
    [client EXCEPT
        !.error = Val(message),
        !.status = IF @ # Null
                   THEN Val([Get(@) EXCEPT !.ok = FALSE, !.dbConnected = FALSE])
                   ELSE Val([ok |-> FALSE, dbConnected |-> FALSE]),
        !.loading = FALSE]

\* The answer of poll i arrives: the rest of fetchStatus
FetchStatusResponse(i) ==
    /\ i \in 1..Len(client.polls)
    /\ client.polls[i].phase = "answered"
    /\ LET res == client.polls[i].response
           after == IF res.status # 200 \/ ~res.body.ok
                    THEN FetchStatusFailed(res.body.error)
                    ELSE [client EXCEPT !.status = Val(res.body),
                                        !.error = Null,
                                        !.loading = FALSE]
       IN  client' = [after EXCEPT !.polls = RemoveAt(@, i)]
    /\ UNCHANGED <<storeVars, dbVars, inputs, inflight, ret>>

\* fetch of poll i rejects
FetchStatusRejected(i) ==
    /\ i \in 1..Len(client.polls)
    /\ client' = [FetchStatusFailed(NetworkError) EXCEPT !.polls = RemoveAt(@, i)]
    /\ UNCHANGED <<storeVars, dbVars, inputs, inflight, ret>>

\* handleToggle(enabled) up to its fetch; the checkbox can be clicked only
\* while it is not disabled, and it hands over the opposite of what it shows
HandleToggle(enabled) ==
    /\ ~Disabled
    /\ enabled = ~Displayed
    /\ client.status # Null
    /\ LET status == Get(client.status)
           previousEnabled == IF "botEnabled" \in DOMAIN status
                              THEN status.botEnabled ELSE FALSE
       IN  /\ client' = [client EXCEPT
                            !.togglePending = TRUE,
                            !.status = Val([botEnabled |-> enabled] @@ status),
                            !.toggle = Val([phase |-> "sent", enabled |-> enabled,
                                            previousEnabled |-> previousEnabled])]
           /\ ret' = [op |-> "handleToggle", enabled |-> enabled,
                      displayedBefore |-> Displayed, done |-> FALSE]
    /\ UNCHANGED <<storeVars, dbVars, inputs, inflight>>

\* POST /status/bot-enabled handles the request of the toggle
ServeBotEnabled ==
    /\ client.toggle # Null
    /\ Get(client.toggle).phase = "sent"
    /\ LET done == setBotEnabled(Get(client.toggle).enabled)
           response == IF done.outcome.ok
                       THEN Response(200, StatusBody(done.outcome.value))
                       ELSE Response(500, StatusFailureBody(done.outcome.error))
       IN  /\ readDb' = done.readDb
           /\ writeDb' = done.writeDb
           /\ opens' = done.opens
           /\ runtime_status' = done.table
           /\ client' = [client EXCEPT !.toggle =
                            Val([Get(@) EXCEPT !.phase = "answered"]
                                @@ [response |-> response])]
    /\ UNCHANGED <<run_metadata, paper_trades, opportunities, portfolio_snapshots,
                   dbFileExists, inputs, inflight, ret>>

\* The catch block of handleToggle
HandleToggleFailed(message) ==
    [client EXCEPT
        !.status = IF @ # Null
                   THEN Val([botEnabled |-> Get(client.toggle).previousEnabled] @@ Get(@))
                   ELSE @,
        !.error = Val(message),
        !.togglePending = FALSE,
        !.toggle = Null]

\* The answer of the toggle arrives: the rest of handleToggle
HandleToggleResponse ==
    /\ client.toggle # Null
    /\ Get(client.toggle).phase = "answered"
    /\ LET res == Get(client.toggle).response
           failed == res.status # 200 \/ ~res.body.ok
       IN  /\ client' = IF failed
                        THEN HandleToggleFailed(res.body.error)
                        ELSE [client EXCEPT !.status = Val(res.body),
                                            !.error = Null,
                                            !.togglePending = FALSE,
                                            !.toggle = Null]
           /\ ret' = [ret EXCEPT !.done = TRUE] @@ [ok |-> ~failed]
    /\ UNCHANGED <<storeVars, dbVars, inputs, inflight>>

\* fetch of the toggle rejects
HandleToggleRejected ==
    /\ client.toggle # Null
    /\ client' = HandleToggleFailed(NetworkError)
    /\ ret' = [ret EXCEPT !.done = TRUE] @@ [ok |-> FALSE]
    /\ UNCHANGED <<storeVars, dbVars, inputs, inflight>>

InitClient ==
    /\ run_metadata = {}
    /\ paper_trades = <<>>
    /\ opportunities = <<>>
    /\ portfolio_snapshots = <<>>
    /\ runtime_status \in {{}} \cup {{[DefaultStatusRow EXCEPT !.bot_enabled = b]} :
                                         b \in {0, 1}}
    /\ ClosedDb
    /\ dbFileExists \in BOOLEAN
    /\ inflight = NoInflight
    /\ client = NoClient
    /\ inputs = NoInputs
    /\ ret = NoCall

NextClient ==
    \/ FetchStatus
    \/ \E i \in 1..MaxPolls : ServeStatus(i)
    \/ \E i \in 1..MaxPolls : FetchStatusResponse(i)
    \/ \E i \in 1..MaxPolls : FetchStatusRejected(i)
    \/ \E enabled \in BOOLEAN : HandleToggle(enabled)
    \/ ServeBotEnabled
    \/ HandleToggleResponse
    \/ HandleToggleRejected

SpecClient == InitClient /\ [][NextClient]_vars

----------------------------------------------------------------------------
(* What the checkbox shows after a toggle *)

\* The stored flag (null while the status row is missing)
Stored ==
    IF \E r \in runtime_status : r.id = 1
    THEN Val((CHOOSE r \in runtime_status : r.id = 1).bot_enabled = 1)
    ELSE Null

\* The last handleToggle call is over
ToggleDone == ret.op = "handleToggle" /\ ret.done

\* A handleToggle call ends in this step
ToggleEnds == ret.op = "handleToggle" /\ ~ret.done /\ ret'.done

\* C30 as stated: from the moment a toggle to v has succeeded until the
\* next toggle starts, the checkbox shows v as long as v is the stored flag,
\* whichever answers of status polls arrive meanwhile; and when a toggle
\* fails the checkbox shows what it showed just before the toggle.
C30_Original ==
    [][/\ (ToggleDone /\ ret.ok)' /\ Stored' = Val(ret'.enabled) =>
              Displayed' = ret'.enabled
       /\ ToggleEnds /\ ~ret'.ok => Displayed' = ret'.displayedBefore
      ]_vars

\* An answer of a poll is under way that does not carry v
StaleAnswer(v) ==
    \E i \in 1..Len(client.polls) :
        /\ client.polls[i].phase = "answered"
        /\ client.polls[i].response.body.ok
        /\ client.polls[i].response.body.botEnabled # v

\* C30, what the component does keep: when a toggle to v succeeds the
\* checkbox shows v, which is the stored flag; it goes on showing v until
\* the next toggle as long as no answer of a poll computed before the toggle
\* was applied is still under way; and when a toggle fails the checkbox
\* shows what it showed just before the toggle.
C30_HoldsWithoutStaleAnswer ==
    [][/\ ToggleEnds /\ ret'.ok =>
              Displayed' = ret'.enabled /\ Stored' = Val(ret'.enabled)
       /\ ToggleEnds /\ ~ret'.ok => Displayed' = ret'.displayedBefore
       /\ (/\ ToggleDone /\ ret.ok /\ ret' = ret
           /\ Displayed = ret.enabled
           /\ ~StaleAnswer(ret.enabled)) =>
              Displayed' = ret.enabled /\ ~StaleAnswer(ret.enabled)'
      ]_vars

\* The toggle to off has succeeded and off is stored, no request is under
\* way, and the checkbox is on: the answer of a poll that the server had
\* computed before the toggle arrived after the toggle's answer
C30_Witness ==
    /\ ToggleDone
    /\ ret.ok
    /\ ~ret.enabled
    /\ Stored = Val(FALSE)
    /\ Displayed
    /\ client.polls = <<>>
    /\ client.toggle = Null
    /\ ~client.togglePending

\* A toggle has failed on a missing store and the checkbox is back to what
\* it showed before
C30_FailedToggleWitness ==
    /\ ToggleDone
    /\ ~ret.ok
    /\ client.error = Val(StoreNotFound)
    /\ Displayed = ret.displayedBefore

====
